---------------------------- MODULE Spec2Model ----------------------------
(***************************************************************************)
(* A model of the dataframe package: the typed columnar store (DF), its    *)
(* column registry (MultiColInfo), the typed value wrappers and the        *)
(* line-oriented reader (DFReader) with its chain of line handlers.        *)
(*                                                                         *)
(* Go slices are modelled as sequences.  Go indexes are kept 0-based in    *)
(* the values the program stores (valIdx, nameToCol); an access to a Go    *)
(* slice s[i] is written s[i + 1].                                         *)
(***************************************************************************)
EXTENDS Integers, Sequences, FiniteSets, TLC

VARIABLES
    pc,       \* position of the caller: which call is in progress / finished
    dfr,      \* the DFReader (its option values)
    state,    \* the dfReadState of the Read in progress
    df,       \* the DF being built / operated on
    ret,      \* what Read returned: [df |-> is a store returned, err |-> error]
    input,    \* the lines the scanner has delivered so far, in order
    flushed,  \* the samples populateDF resolved the types from, in order
    calls,    \* the calls made on the store through its API, in order
    errLog,   \* every error handed to addError, in order
    sample,   \* the rows handed to guessColTypes
    guessed,  \* the result of guessColTypes
    optsGiven, \* the options handed to NewDFReader, in order
    got,      \* the last call that returned something: [op, arg, out]
    heap,     \* the slices' backing arrays and the maps the registries refer to
    objs      \* the registries, rows and stores a caller holds, by reference

vars == <<pc, dfr, state, df, ret, input, flushed, calls, errLog, sample, guessed, optsGiven, got,
         heap, objs>>

-----------------------------------------------------------------------------
(* Bounds of the model                                                      *)

MaxLines == 3      \* input lines per Read
MaxOpts == 2       \* options handed to NewDFReader
MaxCalls == 3      \* calls made on a store through its API
MaxSample == 2     \* rows handed to guessColTypes
MaxCap == 2        \* largest error cap given to MaxErrors
MaxAddErr == 4     \* errors handed to addError
MaxCfgOpts == 3    \* options handed to NewDFReader when it is looked at alone
MaxFields == 3     \* fields of a line handed to splitLine alone

-----------------------------------------------------------------------------
(* Column types                                                             *)

ColTypeUnknown == 0
ColTypeBool == 1
ColTypeInt == 2
ColTypeFloat == 3
ColTypeString == 4
ColTypeMaxVal == 5

BitFlagBool == 2 ^ ColTypeBool
BitFlagInt == 2 ^ ColTypeInt
BitFlagFloat == 2 ^ ColTypeFloat
BitmaskNonStringDataTypes == BitFlagBool + BitFlagInt + BitFlagFloat

\* The result of an operation that panicked where an integer was expected.
PanicInt == 0 - 1

Min(a, b) == IF a <= b THEN a ELSE b

-----------------------------------------------------------------------------
(* Errors.  An error is a record: its kind (the message), the two numbers   *)
(* the message states (a, b) and the set of indexes it names (idx).         *)

MkErr(kind, a, b, idx) == [kind |-> kind, a |-> a, b |-> b, idx |-> idx]
NoErr == MkErr("nil", 0, 0, {})
IsErr(e) == e.kind # "nil"

ErrNoNamesGiven == MkErr("no column names have been given", 0, 0, {})
ErrNoTypesGiven == MkErr("no column types have been given", 0, 0, {})
ErrHasNamesAndHeader == MkErr("names and header", 0, 0, {})
ErrNamesAlreadySet == MkErr("names already set", 0, 0, {})
ErrTypesAlreadySet == MkErr("types already set", 0, 0, {})
ErrSkipIndexesAlreadySet == MkErr("skip indexes already set", 0, 0, {})
ErrNoSkipColsGiven == MkErr("no column skip indexes have been given", 0, 0, {})
ErrNoTypeInfo == MkErr("no type info", 0, 0, {})

-----------------------------------------------------------------------------
(* Text fields and the strconv parsers.  A field is one of a few            *)
(* representative strings; each parser accepts the strings Go accepts.      *)
(* A float value is kept in tenths (2.5 is 25).                             *)

BoolStrings == {"1", "t"}
IntStrings == {"1", "2", "0x10"}
FloatStrings == {"1", "2", "2.5"}

\* strconv.ParseBool: [ok, val]; val is false when the parse fails
ParseBool(s) == [ok |-> s \in BoolStrings, val |-> s \in BoolStrings]

\* strconv.ParseInt(s, 0, 64): base prefixes accepted; val is 0 on a syntax error
ParseInt(s) ==
    [ok |-> s \in IntStrings,
     val |-> CASE s = "1" -> 1 [] s = "2" -> 2 [] s = "0x10" -> 16 [] OTHER -> 0]

\* strconv.ParseFloat(s, 64): a hexadecimal mantissa without exponent is refused
ParseFloat(s) ==
    [ok |-> s \in FloatStrings,
     val |-> CASE s = "1" -> 10 [] s = "2" -> 20 [] s = "2.5" -> 25 [] OTHER -> 0]

\* BoolVal.SetVal / IntVal.SetVal / FloatVal.SetVal on a zero value
BoolSetVal(s) == [v |-> [Val |-> ParseBool(s).val, IsNA |-> ~ParseBool(s).ok],
                  ok |-> ParseBool(s).ok]
IntSetVal(s) == [v |-> [Val |-> ParseInt(s).val, IsNA |-> ~ParseInt(s).ok],
                 ok |-> ParseInt(s).ok]
FloatSetVal(s) == [v |-> [Val |-> ParseFloat(s).val, IsNA |-> ~ParseFloat(s).ok],
                   ok |-> ParseFloat(s).ok]
StringValOf(s) == [Val |-> s, IsNA |-> FALSE]

\* The NA value and the zero value of each type
NAVal(t) == CASE t = ColTypeBool -> [Val |-> FALSE, IsNA |-> TRUE]
              [] t = ColTypeInt -> [Val |-> 0, IsNA |-> TRUE]
              [] t = ColTypeFloat -> [Val |-> 0, IsNA |-> TRUE]
              [] OTHER -> [Val |-> "", IsNA |-> TRUE]

-----------------------------------------------------------------------------
(* The store: DF with its MultiColInfo (info, valIdx, nameToCol), the four  *)
(* per-type slices of columns and the error accumulator.                    *)

DefaultMaxErrors == 500

BlankColInfo == [name |-> "", colType |-> ColTypeUnknown]

\* NewDF with its maxErrors (500 unless MaxErrors(n) is given)
NewDF(maxErrors) ==
    [info |-> <<>>, valIdx |-> <<>>, nameToCol |-> <<>>,
     boolCols |-> <<>>, intCols |-> <<>>, floatCols |-> <<>>, stringCols |-> <<>>,
     errors |-> <<>>, maxErrors |-> maxErrors, errCount |-> 0]

\* A faulty addError that appends whatever the cap is (C5 tells it from addError)
addErrorUncapped(d, err) ==
    [d EXCEPT !.errCount = @ + 1, !.errors = Append(@, err)]

\* DF.addError
addError(d, err) ==
    [d EXCEPT !.errCount = @ + 1,
              !.errors = IF Len(@) < d.maxErrors THEN Append(@, err) ELSE @]

\* DF.ErrCount, DF.Errors, DF.ColCount
ErrCount(d) == d.errCount
Errors(d) == d.errors
ColCount(d) == Len(d.info)

\* The slice of columns of a type
ColsOfType(d, t) ==
    CASE t = ColTypeBool -> d.boolCols
      [] t = ColTypeInt -> d.intCols
      [] t = ColTypeFloat -> d.floatCols
      [] t = ColTypeString -> d.stringCols
      [] OTHER -> <<>>

IsConcrete(t) == t > ColTypeUnknown /\ t < ColTypeMaxVal

\* Whether cols[v] is an access inside the slice
SlotOK(cols, v) == v >= 0 /\ v < Len(cols)

\* DF.RowCount: the length of column 0's slice, read through its slot.
\* PanicInt when the call panics (unexpected type, or an index out of range).
RowCount(d) ==
    IF Len(d.valIdx) = 0 THEN 0
    ELSE IF Len(d.info) = 0 THEN PanicInt
    ELSE LET i == d.valIdx[1]
             t == d.info[1].colType
         IN IF IsConcrete(t) /\ SlotOK(ColsOfType(d, t), i)
            THEN Len(ColsOfType(d, t)[i + 1])
            ELSE PanicInt

\* The first index (0-based) whose name was already used, or -1
FirstDupIdx(names) ==
    LET dups == {i \in 1..Len(names) : \E j \in 1..(i - 1) : names[j] = names[i]}
    IN IF dups = {} THEN 0 - 1
       ELSE (CHOOSE i \in dups : \A k \in dups : i <= k) - 1

\* A faulty SetColNames that writes the new names into the lookup it has
\* instead of replacing it (C40 tells it from SetColNames)
SetColNamesIntoLookup(d, names) ==
    IF Len(names) = 0
    THEN [df |-> addError(d, ErrNoNamesGiven), err |-> ErrNoNamesGiven]
    ELSE IF Len(d.info) # 0 /\ Len(d.info) # Len(names)
    THEN LET e == MkErr("the number of columns and number of names differ",
                        Len(d.info), Len(names), {})
         IN [df |-> addError(d, e), err |-> e]
    ELSE LET d1 == IF Len(d.info) = 0
                   THEN [d EXCEPT !.info = [i \in 1..Len(names) |-> BlankColInfo]]
                   ELSE d
             i == FirstDupIdx(names)
         IN IF i >= 0
            THEN LET dup == (CHOOSE j \in 1..i : names[j] = names[i + 1]) - 1
                     e == MkErr("duplicate column name", dup, i, {})
                 IN [df |-> addError(d1, e), err |-> e]
            ELSE [df |-> [d1 EXCEPT
                            !.info = [k \in 1..Len(names) |->
                                        [@[k] EXCEPT !.name = names[k]]],
                            !.nameToCol =
                               [n \in (DOMAIN @) \cup {names[k] : k \in 1..Len(names)} |->
                                  IF \E k \in 1..Len(names) : names[k] = n
                                  THEN (CHOOSE k \in 1..Len(names) : names[k] = n) - 1
                                  ELSE @[n]]],
                  err |-> NoErr]

\* DF.SetColNames: [df, err]
SetColNames(d, names) ==
    IF Len(names) = 0
    THEN [df |-> addError(d, ErrNoNamesGiven), err |-> ErrNoNamesGiven]
    ELSE IF Len(d.info) # 0 /\ Len(d.info) # Len(names)
    THEN LET e == MkErr("the number of columns and number of names differ",
                        Len(d.info), Len(names), {})
         IN [df |-> addError(d, e), err |-> e]
    ELSE LET d1 == IF Len(d.info) = 0
                   THEN [d EXCEPT !.info = [i \in 1..Len(names) |-> BlankColInfo]]
                   ELSE d
             i == FirstDupIdx(names)
         IN IF i >= 0
            THEN LET dup == (CHOOSE j \in 1..i : names[j] = names[i + 1]) - 1
                     e == MkErr("duplicate column name", dup, i, {})
                 IN [df |-> addError(d1, e), err |-> e]
            ELSE [df |-> [d1 EXCEPT
                            !.info = [k \in 1..Len(names) |->
                                        [@[k] EXCEPT !.name = names[k]]],
                            !.nameToCol = [n \in {names[k] : k \in 1..Len(names)} |->
                                             (CHOOSE k \in 1..Len(names) : names[k] = n) - 1]],
                  err |-> NoErr]

\* DF.setIdx: give column i (0-based) the next free slot of its type
setIdx(d, i) ==
    LET t == d.info[i + 1].colType
    IN CASE t = ColTypeUnknown -> [d EXCEPT !.valIdx = Append(@, 0 - 1)]
         [] t = ColTypeBool ->
              [d EXCEPT !.valIdx = Append(@, Len(d.boolCols)),
                        !.boolCols = Append(@, <<>>)]
         [] t = ColTypeInt ->
              [d EXCEPT !.valIdx = Append(@, Len(d.intCols)),
                        !.intCols = Append(@, <<>>)]
         [] t = ColTypeFloat ->
              [d EXCEPT !.valIdx = Append(@, Len(d.floatCols)),
                        !.floatCols = Append(@, <<>>)]
         [] OTHER ->
              [d EXCEPT !.valIdx = Append(@, Len(d.stringCols)),
                        !.stringCols = Append(@, <<>>)]

\* The loop of SetColTypes from column i (0-based) on
RECURSIVE SetTypesFrom(_, _, _)
SetTypesFrom(d, types, i) ==
    IF i >= Len(types) THEN d
    ELSE SetTypesFrom(setIdx([d EXCEPT !.info[i + 1].colType = types[i + 1]], i),
                      types, i + 1)

\* The check SetColTypes makes of one type (ColType is unsigned)
BadColType(t) == t < ColTypeUnknown \/ t >= ColTypeMaxVal

\* DF.SetColTypes: [df, err]
SetColTypes(d, types) ==
    IF Len(types) = 0
    THEN [df |-> addError(d, ErrNoTypesGiven), err |-> ErrNoTypesGiven]
    ELSE LET bad == {i \in 1..Len(types) : BadColType(types[i])}
         IN IF bad # {}
            THEN LET i == CHOOSE k \in bad : \A m \in bad : k <= m
                     e == MkErr("bad column type", i - 1, types[i], {})
                 IN [df |-> addError(d, e), err |-> e]
            ELSE LET d1 == IF Len(d.info) = 0
                           THEN [d EXCEPT !.info = [i \in 1..Len(types) |-> BlankColInfo]]
                           ELSE d
                 IN IF Len(d1.info) # Len(types)
                    THEN LET e == MkErr("the number of columns and number of types differ",
                                        Len(d1.info), Len(types), {})
                         IN [df |-> addError(d1, e), err |-> e]
                    ELSE [df |-> SetTypesFrom(d1, types, 0), err |-> NoErr]


\* An outcome of a call that can panic: the store and whether the call panicked
Done(d) == [df |-> d, panic |-> FALSE]
Panicked(d) == [df |-> d, panic |-> TRUE]

\* v.SetVal(s) for a column of type t: the value and whether s parsed, [v, ok]
SetValOf(t, s) ==
    CASE t = ColTypeBool -> BoolSetVal(s)
      [] t = ColTypeInt -> IntSetVal(s)
      [] t = ColTypeFloat -> FloatSetVal(s)
      [] OTHER -> [v |-> StringValOf(s), ok |-> TRUE]

\* cols[v] = append(cols[v], val) on the slice of columns of type t
AppendVal(d, t, v, val) ==
    CASE t = ColTypeBool -> [d EXCEPT !.boolCols[v + 1] = Append(@, val)]
      [] t = ColTypeInt -> [d EXCEPT !.intCols[v + 1] = Append(@, val)]
      [] t = ColTypeFloat -> [d EXCEPT !.floatCols[v + 1] = Append(@, val)]
      [] OTHER -> [d EXCEPT !.stringCols[v + 1] = Append(@, val)]

\* A faulty end of the turn that records nothing (C9 tells it from RecordParse)
RecordParseSilent(d, ok, i) == Done(d)

\* The end of one turn of AddRowFromText's loop: a failed parse is recorded
\* with RowCount() as its row number
RecordParse(d, ok, i) ==
    IF ok THEN Done(d)
    ELSE IF RowCount(d) = PanicInt THEN Panicked(d)
    ELSE Done(addError(d, MkErr("data row column parse", RowCount(d), i, {})))

\* One turn of AddRowFromText's loop once the slot is known to exist
AddParsed(d, i, t, v, p) == RecordParse(AppendVal(d, t, v, p.v), p.ok, i)

\* One turn of AddRowFromText's loop: field s goes into column i (0-based).
\* The call panics on a column without a slot, on a slot outside its slice
\* and on a column whose type is none of the four.
AddCell(d, i, s) ==
    IF i >= Len(d.valIdx) THEN Panicked(d)
    ELSE LET v == d.valIdx[i + 1]
             t == d.info[i + 1].colType
         IN IF ~IsConcrete(t) \/ ~SlotOK(ColsOfType(d, t), v)
            THEN Panicked(d)
            ELSE AddParsed(d, i, t, v, SetValOf(t, s))

\* The loop of AddRowFromText from column i (0-based) on
RECURSIVE AddCellsFrom(_, _, _)
AddCellsFrom(r, cols, i) ==
    IF r.panic \/ i >= Len(r.df.info) THEN r
    ELSE AddCellsFrom(AddCell(r.df, i, cols[i + 1]), cols, i + 1)

\* DF.AddRowFromText: [df, panic]
AddRowFromText(d, cols) ==
    IF Len(cols) # Len(d.info)
    THEN Done(addError(d, MkErr("dataframe columns and columns being added differ",
                                Len(d.info), Len(cols), {})))
    ELSE AddCellsFrom(Done(d), cols, 0)

\* A faulty loop that adds the rows last to first (C31 tells it from
\* AddRowsFrom)
RECURSIVE AddRowsFromBackwards(_, _)
AddRowsFromBackwards(r, rows) ==
    IF r.panic \/ rows = <<>> THEN r
    ELSE AddRowsFromBackwards(AddRowFromText(r.df, rows[Len(rows)]),
                              SubSeq(rows, 1, Len(rows) - 1))

\* The loop of AddRowsFromText
RECURSIVE AddRowsFrom(_, _)
AddRowsFrom(r, rows) ==
    IF r.panic \/ rows = <<>> THEN r
    ELSE AddRowsFrom(AddRowFromText(r.df, Head(rows)), Tail(rows))

\* DF.AddRowsFromText: [df, panic]
AddRowsFromText(d, rows) == AddRowsFrom(Done(d), rows)

-----------------------------------------------------------------------------
(* Rows: a Row is its MultiColInfo (info, valIdx, nameToCol) and its        *)
(* RowData, the values of each type in the order of their columns.          *)

\* MultiColInfo.Clone of the store's registry, as the fields of a row
\* without values
mciClone(d) ==
    [info |-> d.info, valIdx |-> d.valIdx, nameToCol |-> d.nameToCol,
     boolVals |-> <<>>, intVals |-> <<>>, floatVals |-> <<>>, stringVals |-> <<>>]

\* The columns (1-based, in order) of type t
TypedCols(info, t) ==
    SelectSeq([i \in 1..Len(info) |-> i], LAMBDA i : info[i].colType = t)

\* An outcome of a call that returns a row and can panic
GotRow(r) == [row |-> r, panic |-> FALSE]
NoRow(d) == [row |-> mciClone(d), panic |-> TRUE]

\* DF.RowNA: [row, panic]; it panics on a column whose type is none of the four
RowNA(d) ==
    IF \E i \in 1..Len(d.info) : ~IsConcrete(d.info[i].colType) THEN NoRow(d)
    ELSE GotRow([mciClone(d) EXCEPT
           !.boolVals = [k \in 1..Len(TypedCols(d.info, ColTypeBool)) |-> NAVal(ColTypeBool)],
           !.intVals = [k \in 1..Len(TypedCols(d.info, ColTypeInt)) |-> NAVal(ColTypeInt)],
           !.floatVals = [k \in 1..Len(TypedCols(d.info, ColTypeFloat)) |-> NAVal(ColTypeFloat)],
           !.stringVals = [k \in 1..Len(TypedCols(d.info, ColTypeString)) |-> NAVal(ColTypeString)]])

\* Whether Row's loop can read row i (0-based) of column c (1-based): the
\* column has a slot, the slot is in its slice and the slice holds row i
CanReadCell(d, c, i) ==
    /\ c <= Len(d.valIdx)
    /\ SlotOK(ColsOfType(d, d.info[c].colType), d.valIdx[c])
    /\ i < Len(ColsOfType(d, d.info[c].colType)[d.valIdx[c] + 1])

\* The values Row's loop appends for the columns of type t, in column order
RowValsOfType(d, t, i) ==
    [k \in 1..Len(TypedCols(d.info, t)) |->
        ColsOfType(d, t)[d.valIdx[TypedCols(d.info, t)[k]] + 1][i + 1]]

\* Row's loop over the columns (a column of no concrete type is passed over)
RowLoop(d, i) ==
    IF \E c \in 1..Len(d.info) :
          IsConcrete(d.info[c].colType) /\ ~CanReadCell(d, c, i)
    THEN NoRow(d)
    ELSE GotRow([mciClone(d) EXCEPT
           !.boolVals = RowValsOfType(d, ColTypeBool, i),
           !.intVals = RowValsOfType(d, ColTypeInt, i),
           !.floatVals = RowValsOfType(d, ColTypeFloat, i),
           !.stringVals = RowValsOfType(d, ColTypeString, i)])

\* DF.Row: [row, panic]
Row(d, i) ==
    IF i < 0 THEN RowNA(d)
    ELSE IF RowCount(d) = PanicInt THEN NoRow(d)
    ELSE IF i >= RowCount(d) THEN RowNA(d)
    ELSE RowLoop(d, i)

\* A faulty Clone that keeps the values (C18 tells it from Clone)
CloneWithValues(d) == [d EXCEPT !.errors = <<>>, !.maxErrors = 0, !.errCount = 0]

\* DF.Clone: the registry and as many empty columns of each type
Clone(d) ==
    [info |-> d.info, valIdx |-> d.valIdx, nameToCol |-> d.nameToCol,
     boolCols |-> [k \in 1..Len(d.boolCols) |-> <<>>],
     intCols |-> [k \in 1..Len(d.intCols) |-> <<>>],
     floatCols |-> [k \in 1..Len(d.floatCols) |-> <<>>],
     stringCols |-> [k \in 1..Len(d.stringCols) |-> <<>>],
     errors |-> <<>>, maxErrors |-> 0, errCount |-> 0]

\* ColInfo.Check
Check(ci) ==
    IF ci.name = "" THEN MkErr("the column name is invalid: it must not be blank", 0, 0, {})
    ELSE IF ci.colType <= ColTypeUnknown \/ ci.colType >= ColTypeMaxVal
    THEN MkErr("the column type is invalid", ci.colType, 0, {})
    ELSE NoErr

\* A faulty Add whose slot counts the columns of every type (C38 tells it
\* from Add)
AddCountingAll(m, ci) ==
    IF IsErr(Check(ci)) THEN [mci |-> m, err |-> Check(ci)]
    ELSE IF ci.name \in DOMAIN m.nameToCol
    THEN [mci |-> m, err |-> MkErr("column name already used", m.nameToCol[ci.name], 0, {})]
    ELSE [mci |-> [m EXCEPT
                     !.valIdx = Append(@, Len(m.info)),
                     !.nameToCol = [n \in (DOMAIN @) \cup {ci.name} |->
                                      IF n = ci.name THEN Len(m.info) ELSE @[n]],
                     !.info = Append(@, ci)],
          err |-> NoErr]

\* MultiColInfo.Add on the registry fields of m: [mci, err]
Add(m, ci) ==
    IF IsErr(Check(ci)) THEN [mci |-> m, err |-> Check(ci)]
    ELSE IF ci.name \in DOMAIN m.nameToCol
    THEN [mci |-> m, err |-> MkErr("column name already used", m.nameToCol[ci.name], 0, {})]
    ELSE [mci |-> [m EXCEPT
                     !.valIdx = Append(@, Len(TypedCols(m.info, ci.colType))),
                     !.nameToCol = [n \in (DOMAIN @) \cup {ci.name} |->
                                      IF n = ci.name THEN Len(m.info) ELSE @[n]],
                     !.info = Append(@, ci)],
          err |-> NoErr]

\* The loop of NewMultiColInfo, a = [mci, err]: it stops at the first error
RECURSIVE AddAll(_, _)
AddAll(a, cis) ==
    IF IsErr(a.err) \/ cis = <<>> THEN a
    ELSE AddAll(Add(a.mci, Head(cis)), Tail(cis))

\* NewMultiColInfo on an empty row: [mci, err]
NewMultiColInfo(cis) == AddAll([mci |-> mciClone(NewDF(0)), err |-> NoErr], cis)

\* The end of NewRow, a = [mci, err] being what NewMultiColInfo left: every
\* value is IsNA
NewRowEnd(a) ==
    IF IsErr(a.err) THEN [row |-> a.mci, err |-> a.err]
    ELSE [row |-> [a.mci EXCEPT
            !.boolVals = [k \in 1..Len(TypedCols(a.mci.info, ColTypeBool)) |-> NAVal(ColTypeBool)],
            !.intVals = [k \in 1..Len(TypedCols(a.mci.info, ColTypeInt)) |-> NAVal(ColTypeInt)],
            !.floatVals = [k \in 1..Len(TypedCols(a.mci.info, ColTypeFloat)) |-> NAVal(ColTypeFloat)],
            !.stringVals = [k \in 1..Len(TypedCols(a.mci.info, ColTypeString)) |-> NAVal(ColTypeString)]],
          err |-> NoErr]

\* NewRow: [row, err]
NewRow(cis) == NewRowEnd(NewMultiColInfo(cis))

\* The first index (1-based) at which Match's first loop finds a difference,
\* 0 when it finds none
FirstInfoDiff(m, other) ==
    IF \A i \in 1..Len(m.info) : m.info[i] = other.info[i] THEN 0
    ELSE CHOOSE i \in 1..Len(m.info) :
            /\ m.info[i] # other.info[i]
            /\ \A k \in 1..(i - 1) : m.info[k] = other.info[k]

\* The first index (1-based) at which Match's second loop stops: other has
\* no slot there (the access panics) or the slots differ; 0 when it runs through
FirstIdxStop(m, other) ==
    IF \A i \in 1..Len(m.valIdx) : i <= Len(other.valIdx) /\ m.valIdx[i] = other.valIdx[i]
    THEN 0
    ELSE CHOOSE i \in 1..Len(m.valIdx) :
            /\ i > Len(other.valIdx) \/ m.valIdx[i] # other.valIdx[i]
            /\ \A k \in 1..(i - 1) : k <= Len(other.valIdx) /\ m.valIdx[k] = other.valIdx[k]

\* The second loop of Match: [err, panic]
MatchIdx(m, other, i) ==
    IF i = 0 THEN [err |-> NoErr, panic |-> FALSE]
    ELSE IF i > Len(other.valIdx) THEN [err |-> NoErr, panic |-> TRUE]
    ELSE [err |-> MkErr("has a different value idx", m.valIdx[i], other.valIdx[i], {i - 1}),
          panic |-> FALSE]

\* The first loop of Match on registries of the same length
MatchInfo(m, other, i) ==
    IF i = 0 THEN MatchIdx(m, other, FirstIdxStop(m, other))
    ELSE IF m.info[i].colType # other.info[i].colType
    THEN [err |-> MkErr("has a different type", m.info[i].colType,
                        other.info[i].colType, {i - 1}),
          panic |-> FALSE]
    ELSE [err |-> MkErr("has a different name", 0, 0, {i - 1}), panic |-> FALSE]

\* MultiColInfo.Match: [err, panic]
Match(m, other) ==
    IF Len(m.info) # Len(other.info)
    THEN [err |-> MkErr("differing numbers of columns", Len(m.info), Len(other.info), {}),
          panic |-> FALSE]
    ELSE MatchInfo(m, other, FirstInfoDiff(m, other))

\* The values of type t a row holds
ValsOfType(row, t) ==
    CASE t = ColTypeBool -> row.boolVals
      [] t = ColTypeInt -> row.intVals
      [] t = ColTypeFloat -> row.floatVals
      [] t = ColTypeString -> row.stringVals
      [] OTHER -> <<>>

\* One turn of AddRow's loop: column i (0-based) takes the row's value at
\* its slot.  It panics on a column without a slot and on a slot outside
\* the store's columns or the row's values; a column of no concrete type is
\* passed over.
AddRowCell(d, row, i) ==
    IF i >= Len(d.valIdx) THEN Panicked(d)
    ELSE IF ~IsConcrete(d.info[i + 1].colType) THEN Done(d)
    ELSE IF ~SlotOK(ColsOfType(d, d.info[i + 1].colType), d.valIdx[i + 1])
            \/ ~SlotOK(ValsOfType(row, d.info[i + 1].colType), d.valIdx[i + 1])
    THEN Panicked(d)
    ELSE Done(AppendVal(d, d.info[i + 1].colType, d.valIdx[i + 1],
                        ValsOfType(row, d.info[i + 1].colType)[d.valIdx[i + 1] + 1]))

\* The loop of AddRow from column i (0-based) on
RECURSIVE AddRowFrom(_, _, _)
AddRowFrom(r, row, i) ==
    IF r.panic \/ i >= Len(r.df.info) THEN r
    ELSE AddRowFrom(AddRowCell(r.df, row, i), row, i + 1)

\* What AddRow returns after its loop, b = [df, panic] being what the loop left
AddRowEnd(b) == [df |-> b.df, err |-> NoErr, panic |-> b.panic]

\* AddRow after Match, a = [err, panic] being what Match left: [df, err, panic]
AddRowMatched(d, row, a) ==
    IF a.panic THEN [df |-> d, err |-> NoErr, panic |-> TRUE]
    ELSE IF IsErr(a.err) THEN [df |-> d, err |-> a.err, panic |-> FALSE]
    ELSE AddRowEnd(AddRowFrom(Done(d), row, 0))

\* DF.AddRow: [df, err, panic]
AddRow(d, row) == AddRowMatched(d, row, Match(d, row))

\* An outcome of an accessor: the value, the error, whether the call panicked
Answer(val, err) == [val |-> val, err |-> err, panic |-> FALSE]
NoAnswer == [val |-> <<>>, err |-> NoErr, panic |-> TRUE]

\* The last line of the column accessors: cols[df.mci.valIdx[i]] for column
\* i (0-based) of type t
ColAt(d, t, i) ==
    IF i >= Len(d.valIdx) \/ ~SlotOK(ColsOfType(d, t), d.valIdx[i + 1]) THEN NoAnswer
    ELSE Answer(ColsOfType(d, t)[d.valIdx[i + 1] + 1], NoErr)

\* BoolColByIdx, IntColByIdx, FloatColByIdx, StringColByIdx (t the type asked for)
ColByIdx(d, t, i) ==
    IF i < 0 \/ i >= Len(d.info)
    THEN Answer(<<>>, MkErr("there is no column", i, Len(d.info) - 1, {}))
    ELSE IF d.info[i + 1].colType # t
    THEN Answer(<<>>, MkErr("the column is of another type", d.info[i + 1].colType, t, {i}))
    ELSE ColAt(d, t, i)

\* BoolColByName, IntColByName, FloatColByName, StringColByName
ColByName(d, t, name) ==
    IF name \notin DOMAIN d.nameToCol
    THEN Answer(<<>>, MkErr("unknown column name", 0, 0, {}))
    ELSE IF d.nameToCol[name] >= Len(d.info) THEN NoAnswer
    ELSE IF d.info[d.nameToCol[name] + 1].colType # t
    THEN Answer(<<>>, MkErr("the column is of another type",
                            d.info[d.nameToCol[name] + 1].colType, t, {}))
    ELSE ColAt(d, t, d.nameToCol[name])

\* DF.ColInfoByName
ColInfoByName(d, name) ==
    IF name \notin DOMAIN d.nameToCol
    THEN Answer(BlankColInfo, MkErr("unknown column name", 0, 0, {}))
    ELSE IF d.nameToCol[name] >= Len(d.info) THEN NoAnswer
    ELSE Answer(d.info[d.nameToCol[name] + 1], NoErr)

\* DF.ColInfoByIdx
ColInfoByIdx(d, i) ==
    IF i < 0 \/ i >= Len(d.info)
    THEN Answer(BlankColInfo, MkErr("there is no column", i, Len(d.info) - 1, {}))
    ELSE Answer(d.info[i + 1], NoErr)

-----------------------------------------------------------------------------
(* Type inference: tryParse and guessColTypes                               *)

\* v & flag == flag, and v &= ^flag, on the three flags (each a single bit)
HasBit(v, flag) == (v \div flag) % 2 = 1
ClearBit(v, flag) == IF HasBit(v, flag) THEN v - flag ELSE v

canBeBool(v) == HasBit(v, BitFlagBool)
canBeInt(v) == HasBit(v, BitFlagInt)
canBeFloat(v) == HasBit(v, BitFlagFloat)

\* A faulty test that sets the int flag again when a field parses (C34
\* tells it from tryInt)
tryIntRestoring(v, col) ==
    IF ~ParseInt(col).ok THEN ClearBit(v, BitFlagInt)
    ELSE IF HasBit(v, BitFlagInt) THEN v
    ELSE v + BitFlagInt

\* The three tests tryParse makes of one field, each on the flags so far
tryBool(v, col) == IF ~ParseBool(col).ok THEN ClearBit(v, BitFlagBool) ELSE v
tryInt(v, col) == IF ~ParseInt(col).ok THEN ClearBit(v, BitFlagInt) ELSE v
tryFloat(v, col) == IF ~ParseFloat(col).ok THEN ClearBit(v, BitFlagFloat) ELSE v

\* The body of tryParse's inner loop: the flags of one column after one field
tryParseField(v, col) == tryFloat(tryInt(tryBool(v, col), col), col)

\* tryParse: the flags after every row, in order.  (A row longer than
\* canBeTypes makes the Go loop index out of range; no caller hands one in.)
RECURSIVE tryParse(_, _)
tryParse(canBeTypes, rows) ==
    IF rows = <<>> THEN canBeTypes
    ELSE tryParse([i \in 1..Len(canBeTypes) |->
                     IF i <= Len(Head(rows))
                     THEN tryParseField(canBeTypes[i], Head(rows)[i])
                     ELSE canBeTypes[i]],
                  Tail(rows))

\* initTypeSlice
initTypeSlice(n) == [i \in 1..n |-> BitmaskNonStringDataTypes]

\* A faulty choice that tries int before bool (C6 tells it from TypeOfFlags)
TypeOfFlagsIntFirst(v) ==
    IF canBeInt(v) THEN ColTypeInt
    ELSE IF canBeBool(v) THEN ColTypeBool
    ELSE IF canBeFloat(v) THEN ColTypeFloat
    ELSE ColTypeString

\* The type chosen from the flags of one column
TypeOfFlags(v) ==
    IF canBeBool(v) THEN ColTypeBool
    ELSE IF canBeInt(v) THEN ColTypeInt
    ELSE IF canBeFloat(v) THEN ColTypeFloat
    ELSE ColTypeString

\* The last loop of guessColTypes: a type already set is kept
typesFromFlags(ci, canBeTypes) ==
    [i \in 1..Len(ci) |->
       IF ci[i].colType # ColTypeUnknown THEN ci[i].colType
       ELSE TypeOfFlags(canBeTypes[i])]

\* guessColTypes: one type per column (the empty list when there is no column)
guessColTypes(ci, rows) ==
    IF Len(ci) = 0 THEN <<>>
    ELSE typesFromFlags(ci, tryParse(initTypeSlice(Len(ci)), rows))

-----------------------------------------------------------------------------
(* The reader: its options and NewDFReader                                  *)

defaultInitialLines == 10

\* An option value: its name and its arguments
Opt(name, n, names, types, skips) ==
    [opt |-> name, n |-> n, names |-> names, types |-> types, skips |-> skips]

HasHeader == Opt("HasHeader", 0, <<>>, <<>>, <<>>)
SkipBlankLines == Opt("SkipBlankLines", 0, <<>>, <<>>, <<>>)
AllowErrors == Opt("AllowErrors", 0, <<>>, <<>>, <<>>)
\* CommentPattern(p): n = 1 when p compiles, 0 when it does not
CommentPattern(valid) == Opt("CommentPattern", valid, <<>>, <<>>, <<>>)
SkipLines(n) == Opt("SkipLines", n, <<>>, <<>>, <<>>)
InitialLines(n) == Opt("InitialLines", n, <<>>, <<>>, <<>>)
DFRColNames(names) == Opt("DFRColNames", 0, names, <<>>, <<>>)
DFRColTypes(types) == Opt("DFRColTypes", 0, <<>>, types, <<>>)
DFRSkipCols(skips) == Opt("DFRSkipCols", 0, <<>>, <<>>, skips)

\* The DFReader NewDFReader starts from
InitialDFReader ==
    [hasHeader |-> FALSE, skipBlankLines |-> FALSE, allowErrors |-> FALSE,
     commentRegex |-> FALSE, colNames |-> <<>>, colTypes |-> <<>>,
     skipLines |-> 0, initialLines |-> defaultInitialLines, skipCols |-> {}]

\* A faulty HasHeader that does not look at the names (C14 tells it from
\* applyHasHeader)
applyHasHeaderUnchecked(r) == [dfr |-> [r EXCEPT !.hasHeader = TRUE], err |-> NoErr]

\* HasHeader applied to the reader: [dfr, err]
applyHasHeader(r) ==
    [dfr |-> [r EXCEPT !.hasHeader = TRUE],
     err |-> IF Len(r.colNames) # 0 THEN ErrHasNamesAndHeader ELSE NoErr]

\* A faulty DFRColNames that lets names be given again (C16 tells it from
\* applyDFRColNames)
applyDFRColNamesAgain(r, names) ==
    IF r.hasHeader THEN [dfr |-> r, err |-> ErrHasNamesAndHeader]
    ELSE IF Len(names) = 0 THEN [dfr |-> r, err |-> ErrNoNamesGiven]
    ELSE IF Len(r.colTypes) # 0 /\ Len(r.colTypes) # Len(names)
    THEN [dfr |-> r,
          err |-> MkErr("the number of column types and names differ",
                        Len(r.colTypes), Len(names), {})]
    ELSE [dfr |-> [r EXCEPT !.colNames = names], err |-> NoErr]

\* The function DFRColNames(names...) returns, applied to the reader
applyDFRColNames(r, names) ==
    IF r.hasHeader THEN [dfr |-> r, err |-> ErrHasNamesAndHeader]
    ELSE IF Len(names) = 0 THEN [dfr |-> r, err |-> ErrNoNamesGiven]
    ELSE IF Len(r.colNames) # 0 THEN [dfr |-> r, err |-> ErrNamesAlreadySet]
    ELSE IF Len(r.colTypes) # 0 /\ Len(r.colTypes) # Len(names)
    THEN [dfr |-> r,
          err |-> MkErr("the number of column types and names differ",
                        Len(r.colTypes), Len(names), {})]
    ELSE [dfr |-> [r EXCEPT !.colNames = names], err |-> NoErr]

\* A faulty DFRColTypes that does not compare the two lengths (C15 tells it
\* from applyDFRColTypes)
applyDFRColTypesAnyLength(r, types) ==
    IF Len(types) = 0 THEN [dfr |-> r, err |-> ErrNoTypesGiven]
    ELSE IF Len(r.colTypes) # 0 THEN [dfr |-> r, err |-> ErrTypesAlreadySet]
    ELSE [dfr |-> [r EXCEPT !.colTypes = types], err |-> NoErr]

\* The function DFRColTypes(types...) returns, applied to the reader
applyDFRColTypes(r, types) ==
    IF Len(types) = 0 THEN [dfr |-> r, err |-> ErrNoTypesGiven]
    ELSE IF Len(r.colTypes) # 0 THEN [dfr |-> r, err |-> ErrTypesAlreadySet]
    ELSE IF Len(r.colNames) # 0 /\ Len(r.colNames) # Len(types)
    THEN [dfr |-> r,
          err |-> MkErr("the number of column types and names differ",
                        Len(types), Len(r.colNames), {})]
    ELSE [dfr |-> [r EXCEPT !.colTypes = types], err |-> NoErr]

\* The function DFRSkipCols(skips...) returns, applied to the reader (skips
\* is not empty and holds no index twice: DFRSkipCols panics otherwise)
applyDFRSkipCols(r, skips) ==
    IF r.skipCols # {} THEN [dfr |-> r, err |-> ErrSkipIndexesAlreadySet]
    ELSE [dfr |-> [r EXCEPT !.skipCols = {skips[i] : i \in 1..Len(skips)}],
          err |-> NoErr]

\* Applying one option to the reader: [dfr, err]
ApplyOpt(r, o) ==
    CASE o.opt = "HasHeader" -> applyHasHeader(r)
      [] o.opt = "SkipBlankLines" ->
           [dfr |-> [r EXCEPT !.skipBlankLines = TRUE], err |-> NoErr]
      [] o.opt = "AllowErrors" ->
           [dfr |-> [r EXCEPT !.allowErrors = TRUE], err |-> NoErr]
      [] o.opt = "CommentPattern" ->
           IF o.n = 1 THEN [dfr |-> [r EXCEPT !.commentRegex = TRUE], err |-> NoErr]
           ELSE [dfr |-> [r EXCEPT !.commentRegex = FALSE],
                 err |-> MkErr("the regexp to strip comments is invalid", 0, 0, {})]
      [] o.opt = "SkipLines" ->
           [dfr |-> [r EXCEPT !.skipLines = o.n], err |-> NoErr]
      [] o.opt = "InitialLines" ->
           IF o.n < 0
           THEN [dfr |-> r,
                 err |-> MkErr("the number of lines to decide column type must be >= 0",
                               o.n, 0, {})]
           ELSE [dfr |-> [r EXCEPT !.initialLines = o.n], err |-> NoErr]
      [] o.opt = "DFRColNames" -> applyDFRColNames(r, o.names)
      [] o.opt = "DFRColTypes" -> applyDFRColTypes(r, o.types)
      [] OTHER -> applyDFRSkipCols(r, o.skips)

\* The loop of NewDFReader over the options, a = [dfr, err]: it stops at the
\* first option that fails
RECURSIVE ApplyOpts(_, _)
ApplyOpts(a, opts) ==
    IF IsErr(a.err) \/ opts = <<>> THEN a
    ELSE ApplyOpts(ApplyOpt(a.dfr, Head(opts)), Tail(opts))

\* A faulty end of NewDFReader that does not ask for type information (C13
\* tells it from finishDFReader)
finishDFReaderUnchecked(a) ==
    IF IsErr(a.err) THEN a
    ELSE [dfr |-> [a.dfr EXCEPT !.initialLines =
                                  IF Len(a.dfr.colTypes) # 0 THEN 0
                                  ELSE IF a.dfr.hasHeader THEN @ + 1
                                  ELSE @],
          err |-> NoErr]

\* A faulty end of NewDFReader that keeps the sample size when types are
\* given (C12 tells it from finishDFReader)
finishDFReaderBuffering(a) ==
    IF IsErr(a.err) THEN a
    ELSE IF a.dfr.initialLines = 0 /\ Len(a.dfr.colTypes) = 0
    THEN [dfr |-> a.dfr, err |-> ErrNoTypeInfo]
    ELSE [dfr |-> [a.dfr EXCEPT !.initialLines = IF a.dfr.hasHeader THEN @ + 1 ELSE @],
          err |-> NoErr]

\* The checks and adjustments NewDFReader makes after the options
finishDFReader(a) ==
    IF IsErr(a.err) THEN a
    ELSE IF a.dfr.initialLines = 0 /\ Len(a.dfr.colTypes) = 0
    THEN [dfr |-> a.dfr, err |-> ErrNoTypeInfo]
    ELSE [dfr |-> [a.dfr EXCEPT !.initialLines =
                                  IF Len(a.dfr.colTypes) # 0 THEN 0
                                  ELSE IF a.dfr.hasHeader THEN @ + 1
                                  ELSE @],
          err |-> NoErr]

\* NewDFReader: [dfr, err]; a reader is returned when err is NoErr
NewDFReader(opts) ==
    finishDFReader(ApplyOpts([dfr |-> InitialDFReader, err |-> NoErr], opts))

-----------------------------------------------------------------------------
(* Reading.  A line is the sequence of its fields as the split pattern      *)
(* separates them; the field "#" is where the comment pattern matches, so   *)
(* stripping a comment cuts the line at its first "#".  The blank line is   *)
(* the empty sequence.                                                      *)
(* A handler works on c = [state, df, flushed] and yields                   *)
(* [c, skip, err, panic].                                                   *)

CommentMark == "#"

\* newDFReadState: the cache exists (is not nil) when initialLines > 0
newDFReadState(r) ==
    [loc |-> 0, dataLineNum |-> 0, line |-> <<>>, cols |-> <<>>,
     cacheNil |-> ~(r.initialLines > 0), cache |-> <<>>,
     cacheCap |-> IF r.initialLines > 0 THEN r.initialLines ELSE 0]

Result(c, skip, err) == [c |-> c, skip |-> skip, err |-> err, panic |-> FALSE]

\* The second half of makeDF: the types, unless the names failed
makeDFTypes(r, a) ==
    IF IsErr(a.err) THEN a
    ELSE IF Len(r.colTypes) > 0 THEN SetColTypes(a.df, r.colTypes)
    ELSE a

\* DFReader.makeDF: [df, err]
makeDF(r) ==
    makeDFTypes(r, IF Len(r.colNames) > 0
                   THEN SetColNames(NewDF(DefaultMaxErrors), r.colNames)
                   ELSE [df |-> NewDF(DefaultMaxErrors), err |-> NoErr])

\* A faulty test that lets the last of the lines to skip through (C36 tells
\* it from skipLine)
skipLineOneFewer(r, c) == Result(c, c.state.loc < r.skipLines, NoErr)

\* skipLine
skipLine(r, c) == Result(c, c.state.loc <= r.skipLines, NoErr)

\* The part of the line before the first match of the comment pattern
BeforeComment(line) ==
    LET marks == {i \in 1..Len(line) : line[i] = CommentMark}
    IN IF marks = {} THEN line
       ELSE SubSeq(line, 1, (CHOOSE i \in marks : \A k \in marks : i <= k) - 1)

\* stripComments
stripComments(r, c) ==
    IF ~r.commentRegex THEN Result(c, FALSE, NoErr)
    ELSE Result([c EXCEPT !.state.line = BeforeComment(@)], FALSE, NoErr)

\* A faulty skipBlankLine that lets the blank line through once its error is
\* suppressed (C23 tells it from skipBlankLine)
skipBlankLineLetsThrough(r, c) ==
    IF c.state.line # <<>> THEN Result(c, FALSE, NoErr)
    ELSE IF r.skipBlankLines THEN Result(c, TRUE, NoErr)
    ELSE Result([c EXCEPT !.df = addError(@, MkErr("unexpected blank line",
                                                   c.state.loc, 0, {}))],
                ~r.allowErrors,
                IF r.allowErrors THEN NoErr
                ELSE MkErr("unexpected blank line", c.state.loc, 0, {}))

\* skipBlankLine
skipBlankLine(r, c) ==
    IF c.state.line # <<>> THEN Result(c, FALSE, NoErr)
    ELSE IF r.skipBlankLines THEN Result(c, TRUE, NoErr)
    ELSE LET e == MkErr("unexpected blank line", c.state.loc, 0, {})
         IN Result([c EXCEPT !.df = addError(@, e)], TRUE,
                   IF r.allowErrors THEN NoErr ELSE e)

\* cols with the element at index i (0-based) removed
RemoveAt(cols, i) == SubSeq(cols, 1, i) \o SubSeq(cols, i + 2, Len(cols))

\* A faulty loop that works forwards from index 0, so that a removal shifts
\* the fields not yet looked at (C22 tells it from SkipLoop)
RECURSIVE SkipForward(_, _, _, _)
SkipForward(cols, j, colsToSkip, skipCols) ==
    IF j >= Len(cols) THEN [cols |-> cols, colsToSkip |-> colsToSkip]
    ELSE IF j \in skipCols
    THEN SkipForward(RemoveAt(cols, j), j + 1, colsToSkip - 1, skipCols)
    ELSE SkipForward(cols, j + 1, colsToSkip, skipCols)
SkipLoopForward(cols, i, colsToSkip, skipCols) == SkipForward(cols, 0, colsToSkip, skipCols)

\* The loop of splitLine, working backwards from index i: [cols, colsToSkip]
RECURSIVE SkipLoop(_, _, _, _)
SkipLoop(cols, i, colsToSkip, skipCols) ==
    IF i < 0 THEN [cols |-> cols, colsToSkip |-> colsToSkip]
    ELSE IF i \in skipCols
    THEN IF colsToSkip - 1 = 0
         THEN [cols |-> RemoveAt(cols, i), colsToSkip |-> 0]
         ELSE SkipLoop(RemoveAt(cols, i), i - 1, colsToSkip - 1, skipCols)
    ELSE SkipLoop(cols, i - 1, colsToSkip, skipCols)

\* The end of splitLine, l = [cols, colsToSkip] being what its loop left:
\* the error is returned whatever allowErrors says
splitLineEnd(r, c, l) ==
    IF l.colsToSkip > 0
    THEN LET e == MkErr("some skip columns are after the end of the line",
                        c.state.loc, 0, {i \in r.skipCols : i > Len(l.cols) - 1})
         IN Result([c EXCEPT !.state.cols = l.cols, !.df = addError(@, e)], FALSE, e)
    ELSE Result([c EXCEPT !.state.cols = l.cols], FALSE, NoErr)

\* splitLine
splitLine(r, c) ==
    IF Cardinality(r.skipCols) = 0
    THEN Result([c EXCEPT !.state.cols = c.state.line], FALSE, NoErr)
    ELSE splitLineEnd(r, c, SkipLoop(c.state.line, Len(c.state.line) - 1,
                                     Cardinality(r.skipCols), r.skipCols))

\* The default name of column i (0-based): "V<i>"
DefaultNames == <<"V0", "V1", "V2", "V3", "V4", "V5">>
DefaultName(i) == DefaultNames[i + 1]

\* What setColNames returns, a = [df, err] being what SetColNames left
namesSet(a, skip) == [df |-> a.df, skip |-> skip, err |-> a.err]

\* DFReader.setColNames: [df, skip, err]
setColNames(r, st, d) ==
    IF Len(r.colNames) # 0 THEN [df |-> d, skip |-> FALSE, err |-> NoErr]
    ELSE IF r.hasHeader THEN namesSet(SetColNames(d, st.cols), TRUE)
    ELSE namesSet(SetColNames(d, [i \in 1..Len(st.cols) |-> DefaultName(i - 1)]),
                  FALSE)

\* The end of handleLine1 on the first data line, a = [df, skip, err] being
\* what setColNames left
handleLine1End(r, c, a) ==
    Result([c EXCEPT !.df = a.df], a.skip, IF r.allowErrors THEN NoErr ELSE a.err)

\* handleLine1, c1 being the state after dataLineNum++
handleLine1Counted(r, c1) ==
    IF c1.state.dataLineNum # 1 THEN Result(c1, FALSE, NoErr)
    ELSE handleLine1End(r, c1, setColNames(r, c1.state, c1.df))

\* handleLine1
handleLine1(r, c) == handleLine1Counted(r, [c EXCEPT !.state.dataLineNum = @ + 1])

\* A faulty checkColumns that lets every line through (C10 tells it from
\* checkColumns)
checkColumnsLenient(r, c) == Result(c, FALSE, NoErr)

\* checkColumns
checkColumns(r, c) ==
    IF Len(c.df.info) = Len(c.state.cols) THEN Result(c, FALSE, NoErr)
    ELSE LET e == MkErr("the dataframe has a columns but this line has b",
                        Len(c.df.info), Len(c.state.cols), {})
         IN Result([c EXCEPT !.df = addError(@, e)], TRUE,
                   IF r.allowErrors THEN NoErr ELSE e)

\* DFReader.setColTypes: [df, err]
setColTypes(r, d, cache) ==
    IF Len(r.colTypes) # 0 THEN [df |-> d, err |-> NoErr]
    ELSE SetColTypes(d, guessColTypes(d.info, cache))

\* The end of populateDF, b = [df, panic] being what AddRowsFromText left
populateDFEnd(c, b) ==
    [c |-> [c EXCEPT !.df = b.df, !.flushed = Append(@, c.state.cache)],
     err |-> IF ~b.panic /\ b.df.errCount # 0
             THEN MkErr("errors parsing initial lines", b.df.errCount, 0, {})
             ELSE NoErr,
     panic |-> b.panic]

\* populateDF after setColTypes, a = [df, err] being what setColTypes left
populateDFTyped(c, a) ==
    IF IsErr(a.err)
    THEN [c |-> [c EXCEPT !.df = a.df], err |-> a.err, panic |-> FALSE]
    ELSE populateDFEnd(c, AddRowsFromText(a.df, c.state.cache))

\* populateDF: [c, err, panic]
populateDF(r, c) ==
    IF Len(c.state.cache) = 0 THEN [c |-> c, err |-> NoErr, panic |-> FALSE]
    ELSE populateDFTyped(c, setColTypes(r, c.df, c.state.cache))

\* The end of cacheData on a full cache, p = [c, err, panic] being what
\* populateDF left: the cache is set to nil
cacheDataEnd(r, p) ==
    [c |-> [p.c EXCEPT !.state.cache = <<>>,
                       !.state.cacheNil = TRUE,
                       !.state.cacheCap = 0],
     skip |-> TRUE,
     err |-> IF r.allowErrors THEN NoErr ELSE p.err,
     panic |-> p.panic]

\* cacheData, c1 being the state after the append to the cache
cacheDataAppended(r, c1) ==
    IF Len(c1.state.cache) = c1.state.cacheCap
    THEN cacheDataEnd(r, populateDF(r, c1))
    ELSE Result(c1, TRUE, NoErr)

\* cacheData
cacheData(r, c) ==
    IF c.state.cacheNil THEN Result(c, FALSE, NoErr)
    ELSE cacheDataAppended(r, [c EXCEPT !.state.cache = Append(@, c.state.cols)])

\* A faulty end of handleData that never looks at the error count (C2 tells
\* it from handleDataEnd)
handleDataEndUnchecked(r, c, a) ==
    [c |-> [c EXCEPT !.df = a.df], skip |-> FALSE, err |-> NoErr, panic |-> a.panic]

\* The end of handleData, a = [df, panic] being what AddRowFromText left
handleDataEnd(r, c, a) ==
    [c |-> [c EXCEPT !.df = a.df],
     skip |-> FALSE,
     err |-> IF ~a.panic /\ ~r.allowErrors /\ a.df.errCount # 0
             THEN MkErr("parsing errors", c.state.loc, 0, {})
             ELSE NoErr,
     panic |-> a.panic]

\* handleData
handleData(r, c) == handleDataEnd(r, c, AddRowFromText(c.df, c.state.cols))

\* The handlers of Read, in the order it runs them
operations ==
    <<"skipLine", "stripComments", "skipBlankLine", "splitLine",
      "handleLine1", "checkColumns", "cacheData", "handleData">>

ApplyHandler(op, r, c) ==
    CASE op = "skipLine" -> skipLine(r, c)
      [] op = "stripComments" -> stripComments(r, c)
      [] op = "skipBlankLine" -> skipBlankLine(r, c)
      [] op = "splitLine" -> splitLine(r, c)
      [] op = "handleLine1" -> handleLine1(r, c)
      [] op = "checkColumns" -> checkColumns(r, c)
      [] op = "cacheData" -> cacheData(r, c)
      [] OTHER -> handleData(r, c)

\* The inner loop of Read from handler k on, x being what the handler before
\* left: the loop stops at the first error or skip
RECURSIVE RunOps(_, _, _)
RunOps(r, x, k) ==
    IF x.panic \/ IsErr(x.err) \/ x.skip \/ k > Len(operations) THEN x
    ELSE RunOps(r, ApplyHandler(operations[k], r, x.c), k + 1)

\* The body of Read's scanner loop for one line
ProcessLine(r, c, line) ==
    RunOps(r, Result([c EXCEPT !.state.loc = @ + 1, !.state.line = line],
                     FALSE, NoErr), 1)

-----------------------------------------------------------------------------
(* The inputs of the model                                                  *)

\* The lines a source delivers
Lines ==
    { <<>>,
      <<"#">>,
      <<"2">>,
      <<"2", "t">>,
      <<"2", "x">>,
      <<"x", "t">>,
      <<"2.5", "x">>,
      <<"t", "t">> }

\* The option values a caller hands to NewDFReader
ReaderOptions ==
    { HasHeader, SkipBlankLines, AllowErrors, CommentPattern(1),
      SkipLines(1), InitialLines(1), InitialLines(2),
      DFRColNames(<<"a", "b">>), DFRColNames(<<"a", "a">>),
      DFRColTypes(<<ColTypeInt, ColTypeString>>),
      DFRColTypes(<<ColTypeUnknown>>),
      DFRColTypes(<<ColTypeMaxVal, ColTypeInt>>),
      DFRSkipCols(<<0>>), DFRSkipCols(<<1>>) }

\* The option lists of at most n options
OptLists(n) == UNION {[1..k -> ReaderOptions] : k \in 0..n}

\* The readers NewDFReader returns for those lists
Readers ==
    {NewDFReader(os).dfr : os \in {l \in OptLists(MaxOpts) : ~IsErr(NewDFReader(l).err)}}

NoReader == InitialDFReader
NoState == newDFReadState(InitialDFReader)
NoRet == [df |-> FALSE, err |-> NoErr]

\* What a call returned: the call, its argument and its outcome
Got(op, arg, out) == [op |-> op, arg |-> arg, out |-> out]
NoGot == Got("none", <<>>, <<>>)

-----------------------------------------------------------------------------
(* Read as a state machine: the caller holds a reader ("ready"), Read       *)
(* builds the store ("reading"), takes the lines one at a time and          *)
(* returns ("returned") or panics ("panicked").                             *)

unusedByRead == <<calls, errLog, sample, guessed, optsGiven, got, heap, objs>>

Init ==
    /\ pc = "ready"
    /\ dfr \in Readers
    /\ state = NoState
    /\ df = NewDF(DefaultMaxErrors)
    /\ ret = NoRet
    /\ input = <<>>
    /\ flushed = <<>>
    /\ calls = <<>>
    /\ errLog = <<>>
    /\ sample = <<>>
    /\ guessed = <<>>
    /\ optsGiven = <<>>
    /\ got = NoGot
    /\ heap = <<>>
    /\ objs = <<>>

\* Read up to its scanner loop: makeDF and newDFReadState
ReadStart ==
    /\ pc = "ready"
    /\ \E a \in {makeDF(dfr)} :
          /\ df' = a.df
          /\ IF IsErr(a.err)
             THEN pc' = "returned" /\ ret' = [df |-> FALSE, err |-> a.err]
                  /\ state' = state
             ELSE pc' = "reading" /\ ret' = ret
                  /\ state' = newDFReadState(dfr)
    /\ UNCHANGED <<dfr, input, flushed, unusedByRead>>

\* One turn of the scanner loop: the scanner delivers a line
ReadLine(line) ==
    /\ pc = "reading"
    /\ Len(input) < MaxLines
    /\ \E x \in {ProcessLine(dfr, [state |-> state, df |-> df, flushed |-> flushed],
                             line)} :
          /\ state' = x.c.state
          /\ df' = x.c.df
          /\ flushed' = x.c.flushed
          /\ pc' = IF x.panic THEN "panicked"
                   ELSE IF IsErr(x.err) THEN "returned" ELSE "reading"
          /\ ret' = IF ~x.panic /\ IsErr(x.err) THEN [df |-> FALSE, err |-> x.err]
                    ELSE ret
    /\ input' = Append(input, line)
    /\ UNCHANGED <<dfr, unusedByRead>>

\* The scanner stops with an error
ReadScanErr ==
    /\ pc = "reading"
    /\ pc' = "returned"
    /\ ret' = [df |-> FALSE, err |-> MkErr("scanner", 0, 0, {})]
    /\ UNCHANGED <<dfr, state, df, input, flushed, unusedByRead>>

\* The scanner reaches the end of the input: the last populateDF and the return
ReadEnd ==
    /\ pc = "reading"
    /\ \E p \in {populateDF(dfr, [state |-> state, df |-> df, flushed |-> flushed])} :
          /\ state' = p.c.state
          /\ df' = p.c.df
          /\ flushed' = p.c.flushed
          /\ pc' = IF p.panic THEN "panicked" ELSE "returned"
          /\ ret' = IF p.panic THEN ret
                    ELSE IF ~dfr.allowErrors /\ IsErr(p.err)
                    THEN [df |-> FALSE, err |-> p.err]
                    ELSE [df |-> TRUE, err |-> NoErr]
    /\ UNCHANGED <<dfr, input, unusedByRead>>

\* The caller clones the store Read returned ("copying") ...
CallClone ==
    /\ pc = "returned"
    /\ ret.df
    /\ pc' = "copying"
    /\ got' = Got("Copy", 0, [df |-> Clone(df), err |-> NoErr, panic |-> FALSE])
    /\ UNCHANGED <<dfr, state, df, ret, input, flushed, calls, errLog, sample,
                   guessed, optsGiven, heap, objs>>

\* The outcome of AddRow(row) on the clone, row an outcome of Row
CopiedRow(copy, r) ==
    IF r.panic THEN [df |-> copy, err |-> NoErr, panic |-> TRUE]
    ELSE AddRow(copy, r.row)

\* ... and appends the store's next row to the clone with Row and AddRow; a
\* call that fails ends the copy ("copyfailed")
CopyRow ==
    /\ pc = "copying"
    /\ got.arg < RowCount(df)
    /\ \E a \in {CopiedRow(got.out.df, Row(df, got.arg))} :
          /\ got' = Got("Copy", got.arg + 1, a)
          /\ pc' = IF a.panic \/ IsErr(a.err) THEN "copyfailed" ELSE "copying"
    /\ UNCHANGED <<dfr, state, df, ret, input, flushed, calls, errLog, sample,
                   guessed, optsGiven, heap, objs>>

Next ==
    \/ ReadStart
    \/ \E line \in Lines : ReadLine(line)
    \/ ReadScanErr
    \/ ReadEnd
    \/ CallClone
    \/ CopyRow

Spec == Init /\ [][Next]_vars

-----------------------------------------------------------------------------
(* The store used directly: a caller makes up to MaxCalls calls on a new    *)
(* store ("store"); a call that panics ends it ("panicked").                *)

\* The arguments the caller hands in
NameLists == { <<>>, <<"a">>, <<"a", "b">>, <<"b", "a">>, <<"a", "a">> }
TypeLists ==
    { <<>>, <<ColTypeInt>>, <<ColTypeInt, ColTypeString>>,
      <<ColTypeBool, ColTypeString>>, <<ColTypeUnknown>>, <<ColTypeMaxVal>> }
TextRows == { <<"2">>, <<"2", "x">>, <<"x", "t">> }

\* A call as the log records it
Call(op, names, types, rows) ==
    [op |-> op, names |-> names, types |-> types, rows |-> rows]

unusedByStore == <<dfr, state, ret, input, flushed, errLog, sample, guessed, optsGiven, got, heap, objs>>

InitStore ==
    /\ pc = "store"
    /\ dfr = NoReader
    /\ state = NoState
    /\ df = NewDF(DefaultMaxErrors)
    /\ ret = NoRet
    /\ input = <<>>
    /\ flushed = <<>>
    /\ calls = <<>>
    /\ errLog = <<>>
    /\ sample = <<>>
    /\ guessed = <<>>
    /\ optsGiven = <<>>
    /\ got = NoGot
    /\ heap = <<>>
    /\ objs = <<>>

CallSetColNames(names) ==
    /\ pc = "store"
    /\ Len(calls) < MaxCalls
    /\ df' = SetColNames(df, names).df
    /\ calls' = Append(calls, Call("SetColNames", names, <<>>, <<>>))
    /\ UNCHANGED <<pc, unusedByStore>>

CallSetColTypes(types) ==
    /\ pc = "store"
    /\ Len(calls) < MaxCalls
    /\ df' = SetColTypes(df, types).df
    /\ calls' = Append(calls, Call("SetColTypes", <<>>, types, <<>>))
    /\ UNCHANGED <<pc, unusedByStore>>

CallAddRowFromText(cols) ==
    /\ pc = "store"
    /\ Len(calls) < MaxCalls
    /\ \E a \in {AddRowFromText(df, cols)} :
          /\ df' = a.df
          /\ pc' = IF a.panic THEN "panicked" ELSE "store"
    /\ calls' = Append(calls, Call("AddRowFromText", <<>>, <<>>, <<cols>>))
    /\ UNCHANGED unusedByStore

CallAddRowsFromText(rows) ==
    /\ pc = "store"
    /\ Len(calls) < MaxCalls
    /\ \E a \in {AddRowsFromText(df, rows)} :
          /\ df' = a.df
          /\ pc' = IF a.panic THEN "panicked" ELSE "store"
    /\ calls' = Append(calls, Call("AddRowsFromText", <<>>, <<>>, rows))
    /\ UNCHANGED unusedByStore

NextStore ==
    \/ \E names \in NameLists : CallSetColNames(names)
    \/ \E types \in TypeLists : CallSetColTypes(types)
    \/ \E cols \in TextRows : CallAddRowFromText(cols)
    \/ \E r1, r2 \in TextRows : CallAddRowsFromText(<<r1, r2>>)

SpecStore == InitStore /\ [][NextStore]_vars

-----------------------------------------------------------------------------
(* The error accumulator on its own: a store with a cap, and errors handed  *)
(* to addError one after the other.                                         *)

\* The option MaxErrors(n) applied to a store: [df, err]
MaxErrors(d, n) ==
    IF n < 0
    THEN [df |-> d, err |-> MkErr("the maximum number of errors must be >= 0", n, 0, {})]
    ELSE [df |-> [d EXCEPT !.maxErrors = n], err |-> NoErr]

\* The errors handed to addError
SomeErrors == { ErrNoNamesGiven, ErrNoTypesGiven, MkErr("bad column type", 0, 5, {}) }

unusedByErr == <<dfr, state, ret, input, flushed, calls, sample, guessed, optsGiven, got, heap, objs>>

InitErr ==
    /\ pc = "errs"
    /\ dfr = NoReader
    /\ state = NoState
    /\ df \in {NewDF(DefaultMaxErrors)}
              \cup {MaxErrors(NewDF(DefaultMaxErrors), n).df : n \in 0..MaxCap}
    /\ ret = NoRet
    /\ input = <<>>
    /\ flushed = <<>>
    /\ calls = <<>>
    /\ errLog = <<>>
    /\ sample = <<>>
    /\ guessed = <<>>
    /\ optsGiven = <<>>
    /\ got = NoGot
    /\ heap = <<>>
    /\ objs = <<>>

RecordError(e) ==
    /\ pc = "errs"
    /\ Len(errLog) < MaxAddErr
    /\ df' = addError(df, e)
    /\ errLog' = Append(errLog, e)
    /\ UNCHANGED <<pc, unusedByErr>>

NextErr == \E e \in SomeErrors : RecordError(e)

SpecErr == InitErr /\ [][NextErr]_vars

-----------------------------------------------------------------------------
(* Type inference on its own: a store whose columns exist, a sample of      *)
(* rows gathered one by one ("sampling") and guessColTypes applied to it    *)
(* ("guessed").                                                             *)

\* The fields of the sampled rows, and the rows
Fields == {"1", "t", "2", "2.5", "0x10", "x"}
SampleRows == UNION {[1..k -> Fields] : k \in 1..2}

\* The stores whose columns are guessed: names only, or some types set
InferStores ==
    { SetColNames(NewDF(DefaultMaxErrors), <<"a">>).df,
      SetColNames(NewDF(DefaultMaxErrors), <<"a", "b">>).df,
      SetColTypes(NewDF(DefaultMaxErrors), <<ColTypeUnknown, ColTypeFloat>>).df }

unusedByInfer == <<dfr, state, ret, input, flushed, calls, errLog, optsGiven, got, heap, objs>>

InitInfer ==
    /\ pc = "sampling"
    /\ dfr = NoReader
    /\ state = NoState
    /\ df \in InferStores
    /\ ret = NoRet
    /\ input = <<>>
    /\ flushed = <<>>
    /\ calls = <<>>
    /\ errLog = <<>>
    /\ sample = <<>>
    /\ guessed = <<>>
    /\ optsGiven = <<>>
    /\ got = NoGot
    /\ heap = <<>>
    /\ objs = <<>>

\* One more row in the sample (no longer than the store has columns)
SampleRow(row) ==
    /\ pc = "sampling"
    /\ Len(sample) < MaxSample
    /\ Len(row) <= Len(df.info)
    /\ sample' = Append(sample, row)
    /\ UNCHANGED <<pc, df, guessed, unusedByInfer>>

\* guessColTypes on the store's columns and the sample
Guess ==
    /\ pc = "sampling"
    /\ pc' = "guessed"
    /\ guessed' = guessColTypes(df.info, sample)
    /\ UNCHANGED <<df, sample, unusedByInfer>>

NextInfer ==
    \/ \E row \in SampleRows : SampleRow(row)
    \/ Guess

SpecInfer == InitInfer /\ [][NextInfer]_vars

-----------------------------------------------------------------------------
(* NewDFReader on its own: a caller holds a list of options ("config") and  *)
(* NewDFReader returns a reader ("ready") or an error ("failed").           *)

\* The option values of the lists: those a read is started with, and those
\* an option function refuses
ConfigOptions ==
    { HasHeader, AllowErrors,
      InitialLines(0), InitialLines(1), InitialLines(0 - 1),
      CommentPattern(0),
      DFRColNames(<<"a", "b">>), DFRColNames(<<"a">>), DFRColNames(<<>>),
      DFRColTypes(<<ColTypeInt, ColTypeString>>), DFRColTypes(<<ColTypeInt>>),
      DFRColTypes(<<>>),
      DFRSkipCols(<<0>>), DFRSkipCols(<<1>>),
      DFRSkipCols(<<>>), DFRSkipCols(<<0, 0 - 1>>), DFRSkipCols(<<1, 1>>) }

ConfigLists == UNION {[1..k -> ConfigOptions] : k \in 0..MaxCfgOpts}

unusedByConfig == <<state, df, input, flushed, calls, errLog, sample, guessed, got, heap, objs>>

InitConfig ==
    /\ pc = "config"
    /\ dfr = NoReader
    /\ state = NoState
    /\ df = NewDF(DefaultMaxErrors)
    /\ ret = NoRet
    /\ input = <<>>
    /\ flushed = <<>>
    /\ calls = <<>>
    /\ errLog = <<>>
    /\ sample = <<>>
    /\ guessed = <<>>
    /\ optsGiven \in ConfigLists
    /\ got = NoGot
    /\ heap = <<>>
    /\ objs = <<>>

\* The checks DFRSkipCols makes of its arguments before it returns the
\* option: it panics on an empty list, a negative index or a duplicate index
DFRSkipColsPanics(skips) ==
    \/ Len(skips) = 0
    \/ \E i \in 1..Len(skips) : skips[i] < 0
    \/ \E i, j \in 1..Len(skips) : i # j /\ skips[i] = skips[j]

\* Making the options panics: the caller's arguments are evaluated before
\* NewDFReader is entered
OptionsPanic(os) ==
    \E k \in 1..Len(os) : os[k].opt = "DFRSkipCols" /\ DFRSkipColsPanics(os[k].skips)

\* NewDFReader(optsGiven...): the reader, or the error and no reader; when
\* making an option panics the caller is ended ("panicked")
Construct ==
    /\ pc = "config"
    /\ IF OptionsPanic(optsGiven)
       THEN pc' = "panicked" /\ dfr' = dfr /\ ret' = ret
       ELSE \E a \in {NewDFReader(optsGiven)} :
               /\ pc' = IF IsErr(a.err) THEN "failed" ELSE "ready"
               /\ dfr' = IF IsErr(a.err) THEN dfr ELSE a.dfr
               /\ ret' = [df |-> FALSE, err |-> a.err]
    /\ UNCHANGED <<optsGiven, unusedByConfig>>

NextConfig == Construct

SpecConfig == InitConfig /\ [][NextConfig]_vars

-----------------------------------------------------------------------------
(* The store read back: a caller builds a store with up to MaxCalls calls   *)
(* ("store"), AddRow among them, and asks for a row or a column             *)
(* ("queried"); a call that panics ends it ("panicked").                    *)

\* The arguments the caller hands in
QueryNameLists == { <<"a", "b">> }
QueryRenames == { <<"a", "b">>, <<"zz", "a">> }
QueryTypeLists ==
    { <<ColTypeInt, ColTypeString>>, <<ColTypeInt, ColTypeBool>>,
      <<ColTypeInt, ColTypeInt>> }
QueryTextRows == { <<"2", "x">>, <<"x", "t">> }
QueryNames == {"a", "b", "zz"}
QueryIdxs == (0 - 1)..2
QueryTypes == {ColTypeBool, ColTypeInt, ColTypeFloat, ColTypeString}

\* The column descriptions the caller makes new rows from
ColInfoOf(name, t) == [name |-> name, colType |-> t]
RowColInfos ==
    { <<ColInfoOf("a", ColTypeInt), ColInfoOf("b", ColTypeString)>>,
      <<ColInfoOf("a", ColTypeInt), ColInfoOf("b", ColTypeBool)>>,
      <<ColInfoOf("b", ColTypeInt), ColInfoOf("a", ColTypeString)>>,
      <<ColInfoOf("a", ColTypeInt)>> }

\* The rows the caller can hand to AddRow: rows of the store itself and new
\* rows
QueryRows(d) ==
    {a.row : a \in {b \in {Row(d, 0), RowNA(d)} : ~b.panic}}
        \cup {NewRow(cis).row : cis \in RowColInfos}

\* The row numbers the caller asks for
RowIdxs(d) ==
    {0 - 1, 0, 1} \cup (IF RowCount(d) > 0 THEN {RowCount(d) - 1, RowCount(d)} ELSE {})

unusedByQuery == <<dfr, state, ret, input, flushed, errLog, sample, guessed, optsGiven, heap, objs>>

\* The caller starts from a new store, or from one whose columns it has named
InitQuery ==
    /\ pc = "store"
    /\ dfr = NoReader
    /\ state = NoState
    /\ df \in {NewDF(DefaultMaxErrors)}
              \cup {SetColNames(NewDF(DefaultMaxErrors), names).df : names \in QueryNameLists}
    /\ ret = NoRet
    /\ input = <<>>
    /\ flushed = <<>>
    /\ calls = <<>>
    /\ errLog = <<>>
    /\ sample = <<>>
    /\ guessed = <<>>
    /\ optsGiven = <<>>
    /\ got = NoGot
    /\ heap = <<>>
    /\ objs = <<>>

CallAddRow(row) ==
    /\ pc = "store"
    /\ Len(calls) < MaxCalls
    /\ \E a \in {AddRow(df, row)} :
          /\ df' = a.df
          /\ pc' = IF a.panic THEN "panicked" ELSE "store"
          /\ got' = Got("AddRow", row, [err |-> a.err, panic |-> a.panic])
    /\ calls' = Append(calls, Call("AddRow", <<>>, <<>>, <<>>))
    /\ UNCHANGED unusedByQuery

\* A call that reads the store: its outcome a = [.., panic] is kept in got
Query(op, arg, a) ==
    /\ pc = "store"
    /\ pc' = IF a.panic THEN "panicked" ELSE "queried"
    /\ got' = Got(op, arg, a)
    /\ UNCHANGED <<df, calls, unusedByQuery>>

CallRow(i) == Query("Row", i, Row(df, i))
CallColByName(t, name) == Query("ColByName", <<t, name>>, ColByName(df, t, name))
CallColByIdx(t, i) == Query("ColByIdx", <<t, i>>, ColByIdx(df, t, i))
CallColInfoByName(name) == Query("ColInfoByName", name, ColInfoByName(df, name))
CallColInfoByIdx(i) == Query("ColInfoByIdx", i, ColInfoByIdx(df, i))

NextQuery ==
    \/ \E names \in QueryRenames : CallSetColNames(names)
    \/ \E types \in QueryTypeLists : CallSetColTypes(types)
    \/ \E cols \in QueryTextRows : CallAddRowFromText(cols)
    \/ \E row \in QueryRows(df) : CallAddRow(row)
    \/ \E i \in RowIdxs(df) : CallRow(i)
    \/ \E t \in QueryTypes, name \in QueryNames : CallColByName(t, name)
    \/ \E t \in QueryTypes, i \in QueryIdxs : CallColByIdx(t, i)
    \/ \E name \in QueryNames : CallColInfoByName(name)
    \/ \E i \in QueryIdxs : CallColInfoByIdx(i)

SpecQuery == InitQuery /\ [][NextQuery]_vars

-----------------------------------------------------------------------------
(* splitLine alone: a reader with skip columns is handed one line, already *)
(* split into its fields ("split"), and splitLine leaves its fields         *)
(* ("splitdone").                                                           *)

\* The fields of the lines, and the lines of at most n fields
SplitFields == {"2", "x", "t"}
SplitLines(n) == UNION {[1..k -> SplitFields] : k \in 0..n}

\* The positions handed to DFRSkipCols
SkipLists ==
    { <<0>>, <<1>>, <<2>>, <<3>>, <<0, 1>>, <<1, 0>>, <<0, 2>>, <<1, 2>>,
      <<1, 3>>, <<0, 1, 2>> }

unusedBySplit == <<input, flushed, calls, errLog, sample, guessed, optsGiven, got, heap, objs>>

InitSplit ==
    /\ pc = "split"
    /\ dfr \in {NewDFReader(<<DFRSkipCols(skips)>>).dfr : skips \in SkipLists}
    /\ state \in {[newDFReadState(InitialDFReader) EXCEPT !.loc = 1, !.line = line] :
                     line \in SplitLines(MaxFields)}
    /\ df = NewDF(DefaultMaxErrors)
    /\ ret = NoRet
    /\ input = <<>>
    /\ flushed = <<>>
    /\ calls = <<>>
    /\ errLog = <<>>
    /\ sample = <<>>
    /\ guessed = <<>>
    /\ optsGiven = <<>>
    /\ got = NoGot
    /\ heap = <<>>
    /\ objs = <<>>

\* splitLine on the line the state holds
CallSplitLine ==
    /\ pc = "split"
    /\ \E x \in {splitLine(dfr, [state |-> state, df |-> df, flushed |-> flushed])} :
          /\ state' = x.c.state
          /\ df' = x.c.df
          /\ ret' = [df |-> FALSE, err |-> x.err]
    /\ pc' = "splitdone"
    /\ UNCHANGED <<dfr, unusedBySplit>>

NextSplit == CallSplitLine

SpecSplit == InitSplit /\ [][NextSplit]_vars

-----------------------------------------------------------------------------
(* Rows built and read by a caller                                          *)

\* The zero value of each type
ZeroVal(t) == [NAVal(t) EXCEPT !.IsNA = FALSE]

\* DF.RowZero: [row, panic]; it panics on a column whose type is none of the four
RowZero(d) ==
    IF \E i \in 1..Len(d.info) : ~IsConcrete(d.info[i].colType) THEN NoRow(d)
    ELSE GotRow([mciClone(d) EXCEPT
           !.boolVals = [k \in 1..Len(TypedCols(d.info, ColTypeBool)) |-> ZeroVal(ColTypeBool)],
           !.intVals = [k \in 1..Len(TypedCols(d.info, ColTypeInt)) |-> ZeroVal(ColTypeInt)],
           !.floatVals = [k \in 1..Len(TypedCols(d.info, ColTypeFloat)) |-> ZeroVal(ColTypeFloat)],
           !.stringVals = [k \in 1..Len(TypedCols(d.info, ColTypeString)) |-> ZeroVal(ColTypeString)]])

\* The row with v appended to its values of type t
WithVal(row, t, v) ==
    CASE t = ColTypeBool -> [row EXCEPT !.boolVals = Append(@, v)]
      [] t = ColTypeInt -> [row EXCEPT !.intVals = Append(@, v)]
      [] t = ColTypeFloat -> [row EXCEPT !.floatVals = Append(@, v)]
      [] OTHER -> [row EXCEPT !.stringVals = Append(@, v)]

\* A faulty end of Row.AddBool etc. that appends the value whether or not
\* Add failed
rowAddEndAlways(t, v, a) == [row |-> WithVal(a.mci, t, v), err |-> a.err]

\* The end of Row.AddBool etc., a = [mci, err] being what Add left
rowAddEnd(t, v, a) ==
    IF IsErr(a.err) THEN [row |-> a.mci, err |-> a.err]
    ELSE [row |-> WithVal(a.mci, t, v), err |-> NoErr]

\* Row.AddBool, Row.AddInt, Row.AddFloat, Row.AddString (t the method's
\* type): [row, err]
RowAdd(row, t, name, v) == rowAddEnd(t, v, Add(row, [name |-> name, colType |-> t]))

\* An outcome of ValByIdx and ValByName
RowAnswer(val, t, err, panic) == [val |-> val, colType |-> t, err |-> err, panic |-> panic]

\* Row.ValByIdx: [val, colType, err, panic]; the read of the value panics
\* when the column's slot is outside the row's values of its type
ValByIdx(row, idx) ==
    IF idx < 0 \/ idx >= Len(row.info)
    THEN RowAnswer(<<>>, ColTypeUnknown,
                   MkErr("there is no column", idx, Len(row.info) - 1, {}), FALSE)
    ELSE IF ~IsConcrete(row.info[idx + 1].colType)
    THEN RowAnswer(<<>>, row.info[idx + 1].colType,
                   MkErr("unexpected column type", row.info[idx + 1].colType, 0, {}), FALSE)
    ELSE IF idx >= Len(row.valIdx)
            \/ ~SlotOK(ValsOfType(row, row.info[idx + 1].colType), row.valIdx[idx + 1])
    THEN RowAnswer(<<>>, row.info[idx + 1].colType, NoErr, TRUE)
    ELSE RowAnswer(ValsOfType(row, row.info[idx + 1].colType)[row.valIdx[idx + 1] + 1],
                   row.info[idx + 1].colType, NoErr, FALSE)

\* Row.ValByName
ValByName(row, name) ==
    IF name \notin DOMAIN row.nameToCol
    THEN RowAnswer(<<>>, ColTypeUnknown, MkErr("unknown column name", 0, 0, {}), FALSE)
    ELSE ValByIdx(row, row.nameToCol[name])

\* Row.MakeDF: the registry and as many columns of each type as the row has
\* values of it, none of them holding a row
MakeDF(row) ==
    [info |-> row.info, valIdx |-> row.valIdx, nameToCol |-> row.nameToCol,
     boolCols |-> [k \in 1..Len(row.boolVals) |-> <<>>],
     intCols |-> [k \in 1..Len(row.intVals) |-> <<>>],
     floatCols |-> [k \in 1..Len(row.floatVals) |-> <<>>],
     stringCols |-> [k \in 1..Len(row.stringVals) |-> <<>>],
     errors |-> <<>>, maxErrors |-> 0, errCount |-> 0]

-----------------------------------------------------------------------------
(* Registries by reference.  A MultiColInfo holds two slices and a map; a   *)
(* slice is the address of its backing array and its length, a map is an    *)
(* address, and heap[a] is the array (as long as the slice's capacity) or   *)
(* the map at address a.  Copying a MultiColInfo value copies the           *)
(* addresses, never what they point at.                                     *)

MaxObjs == 3       \* registries, rows and stores a caller holds
MaxHeap == 12      \* arrays and maps allocated

SliceCap(h, s) == IF s.a = 0 THEN 0 ELSE Len(h[s.a])
Elems(h, s) == IF s.a = 0 THEN <<>> ELSE SubSeq(h[s.a], 1, s.n)

\* The registry the references of m lead to
Deref(h, m) ==
    [info |-> Elems(h, m.info), valIdx |-> Elems(h, m.valIdx),
     nameToCol |-> h[m.nameToCol]]

\* The capacity append gives a slice of capacity c that is full
GrownCap(c) == IF c = 0 THEN 1 ELSE 2 * c

\* append(s, v): [h, s]; the element is written behind the slice's last
\* one while the array has room, and into a new, larger array otherwise
appendSlice(h, s, v, zero) ==
    IF s.n < SliceCap(h, s)
    THEN [h |-> [h EXCEPT ![s.a][s.n + 1] = v], s |-> [a |-> s.a, n |-> s.n + 1]]
    ELSE [h |-> Append(h, Elems(h, s) \o <<v>>
                          \o [k \in 1..(GrownCap(s.n) - s.n - 1) |-> zero]),
          s |-> [a |-> Len(h) + 1, n |-> s.n + 1]]

\* A faulty Clone that copies the MultiColInfo value, so the copy shares the
\* arrays and the map
mciCloneShallow(h, m) == [h |-> h, mci |-> m]

\* MultiColInfo.Clone by reference: [h, mci]; cloneColInfoSlice,
\* cloneIntSlice and cloneColNameMap each allocate
mciCloneRef(h, m) ==
    [h |-> h \o <<Elems(h, m.info), Elems(h, m.valIdx), h[m.nameToCol]>>,
     mci |-> [info |-> [a |-> Len(h) + 1, n |-> m.info.n],
              valIdx |-> [a |-> Len(h) + 2, n |-> m.valIdx.n],
              nameToCol |-> Len(h) + 3]]

\* The writes of a successful Add, in their order: x is what the append to
\* valIdx left, a the outcome of Add on the values
addWriteInfo(m, idx, x) ==
    [h |-> x.h, mci |-> [info |-> x.s, valIdx |-> idx, nameToCol |-> m.nameToCol],
     err |-> NoErr]
addWriteMap(m, a, x) ==
    addWriteInfo(m, x.s,
                 appendSlice([x.h EXCEPT ![m.nameToCol] = a.mci.nameToCol],
                             m.info, a.mci.info[Len(a.mci.info)], BlankColInfo))
addWrite(h, m, a) ==
    IF IsErr(a.err) THEN [h |-> h, mci |-> m, err |-> a.err]
    ELSE addWriteMap(m, a, appendSlice(h, m.valIdx, a.mci.valIdx[Len(a.mci.valIdx)], 0))

\* MultiColInfo.Add by reference: [h, mci, err]
AddRef(h, m, ci) == addWrite(h, m, Add(Deref(h, m), ci))

\* The loop of NewMultiColInfo by reference, x = [h, mci, err]
RECURSIVE AddAllRef(_, _)
AddAllRef(x, cis) ==
    IF IsErr(x.err) \/ cis = <<>> THEN x
    ELSE AddAllRef(AddRef(x.h, x.mci, Head(cis)), Tail(cis))

\* NewMultiColInfo by reference: [h, mci, err]; the slices start nil and the
\* map is made
NewMultiColInfoRef(h, cis) ==
    AddAllRef([h |-> Append(h, <<>>),
               mci |-> [info |-> [a |-> 0, n |-> 0], valIdx |-> [a |-> 0, n |-> 0],
                        nameToCol |-> Len(h) + 1],
               err |-> NoErr], cis)

\* What SetColNames writes, a = [df, err] being its outcome on the values:
\* info is made when the store has no column, the names are written into
\* the array, and a new map replaces the old one
setNamesInfo(h, m, names, a) ==
    IF Len(names) = 0 THEN [h |-> h, s |-> m.info]
    ELSE IF m.info.n = 0
    THEN [h |-> Append(h, a.df.info), s |-> [a |-> Len(h) + 1, n |-> Len(names)]]
    ELSE IF IsErr(a.err) THEN [h |-> h, s |-> m.info]
    ELSE [h |-> [h EXCEPT ![m.info.a] =
                    a.df.info \o SubSeq(@, m.info.n + 1, Len(@))],
          s |-> m.info]
setNamesMap(m, a, x) ==
    IF IsErr(a.err)
    THEN [h |-> x.h, mci |-> [m EXCEPT !.info = x.s]]
    ELSE [h |-> Append(x.h, a.df.nameToCol),
          mci |-> [m EXCEPT !.info = x.s, !.nameToCol = Len(x.h) + 1]]

\* DF.SetColNames by reference: [h, mci]
SetColNamesRef(h, m, names, a) == setNamesMap(m, a, setNamesInfo(h, m, names, a))

-----------------------------------------------------------------------------
(* Registries, rows and stores made and changed by a caller ("rows"):       *)
(* objs lists what the caller holds, each with the references of its        *)
(* MultiColInfo and, as values, its RowData or its columns and errors.      *)

MaxNameErrs == 1   \* failed SetColNames calls on one store

CI(name, t) == [name |-> name, colType |-> t]

\* The descriptors handed to Add, to NewMultiColInfo and to NewRow
RegNames == {"", "a", "b"}
ColInfos == {CI(n, t) : n \in RegNames,
                        t \in {ColTypeUnknown, ColTypeBool, ColTypeInt, ColTypeMaxVal}}
ColInfoLists ==
    { <<>>,
      <<CI("a", ColTypeBool)>>,
      <<CI("a", ColTypeInt), CI("b", ColTypeInt)>>,
      <<CI("b", ColTypeBool), CI("a", ColTypeInt)>>,
      <<CI("a", ColTypeInt), CI("a", ColTypeBool)>>,
      <<CI("", ColTypeInt)>>,
      <<CI("a", ColTypeUnknown)>>,
      <<CI("a", ColTypeInt), CI("b", ColTypeMaxVal)>> }

\* The value handed to AddBool, AddInt, AddFloat and AddString
GivenVal(t) ==
    CASE t = ColTypeBool -> [Val |-> TRUE, IsNA |-> FALSE]
      [] t = ColTypeInt -> [Val |-> 2, IsNA |-> FALSE]
      [] t = ColTypeFloat -> [Val |-> 25, IsNA |-> FALSE]
      [] OTHER -> [Val |-> "x", IsNA |-> FALSE]
ConcreteTypes == {ColTypeBool, ColTypeInt, ColTypeFloat, ColTypeString}

\* The names handed to SetColNames
RowNameLists == { <<>>, <<"b">>, <<"b", "a">>, <<"a", "a">> }

\* The RowData of a row and the columns and errors of a store
RowDataOf(r) ==
    [boolVals |-> r.boolVals, intVals |-> r.intVals,
     floatVals |-> r.floatVals, stringVals |-> r.stringVals]
StoreDataOf(d) ==
    [boolCols |-> d.boolCols, intCols |-> d.intCols,
     floatCols |-> d.floatCols, stringCols |-> d.stringCols,
     errors |-> d.errors, maxErrors |-> d.maxErrors, errCount |-> d.errCount]

\* The row or store o as the values its references lead to
View(h, o) == Deref(h, o.mci) @@ o.data

Obj(kind, m, data) == [kind |-> kind, mci |-> m, data |-> data]
Is(i, kind) == i \in 1..Len(objs) /\ objs[i].kind = kind

unusedByRows == <<dfr, state, df, ret, input, flushed, calls, errLog, sample,
                  guessed, optsGiven>>

InitRows ==
    /\ pc = "rows"
    /\ dfr = NoReader
    /\ state = NoState
    /\ df = NewDF(DefaultMaxErrors)
    /\ ret = NoRet
    /\ input = <<>>
    /\ flushed = <<>>
    /\ calls = <<>>
    /\ errLog = <<>>
    /\ sample = <<>>
    /\ guessed = <<>>
    /\ optsGiven = <<>>
    /\ got = NoGot
    /\ heap = <<>>
    /\ objs = <<>>

\* A call that makes a registry, row or store from what x = [h, mci, ..]
\* left; a call that fails or panics leaves the caller with what it had
Makes(op, arg, kind, x, data, err, panic) ==
    /\ pc = "rows"
    /\ Len(objs) < MaxObjs
    /\ Len(x.h) <= MaxHeap
    /\ got' = Got(op, arg, [err |-> err, panic |-> panic])
    /\ pc' = IF panic THEN "panicked" ELSE "rows"
    /\ IF IsErr(err) \/ panic
       THEN heap' = heap /\ objs' = objs
       ELSE heap' = x.h /\ objs' = Append(objs, Obj(kind, x.mci, data))
    /\ UNCHANGED unusedByRows

\* A call on what the caller holds at i that leaves it as x = [h, mci, ..]
\* with data
Changes(op, i, arg, x, data, err) ==
    /\ pc = "rows"
    /\ Len(x.h) <= MaxHeap
    /\ got' = Got(op, <<i, arg>>, [err |-> err, panic |-> FALSE])
    /\ pc' = "rows"
    /\ heap' = x.h
    /\ objs' = [objs EXCEPT ![i] = Obj(@.kind, x.mci, data)]
    /\ UNCHANGED unusedByRows

\* A call that reads the row at i
Asks(op, i, arg, a) ==
    /\ pc = "rows"
    /\ got' = Got(op, <<i, arg>>, a)
    /\ pc' = IF a.panic THEN "panicked" ELSE "asked"
    /\ UNCHANGED <<heap, objs, unusedByRows>>

\* The caller goes on after a read
GoOn ==
    /\ pc = "asked"
    /\ pc' = "rows"
    /\ UNCHANGED <<got, heap, objs, unusedByRows>>

CallNewMultiColInfo(cis) ==
    \E x \in {NewMultiColInfoRef(heap, cis)} :
        Makes("NewMultiColInfo", cis, "mci", x, <<>>, x.err, FALSE)

CallAdd(i, ci) ==
    /\ Is(i, "mci")
    /\ \E x \in {AddRef(heap, objs[i].mci, ci)} :
          Changes("Add", i, ci, x, <<>>, x.err)

CallNewRow(cis) ==
    \E x \in {NewMultiColInfoRef(heap, cis)} :
        Makes("NewRow", cis, "row", x, RowDataOf(NewRow(cis).row), x.err, FALSE)

\* Row.AddBool etc.: a = [row, err] is the outcome on the values
RowAddRef(i, t, name, a) ==
    \E x \in {AddRef(heap, objs[i].mci, CI(name, t))} :
        Changes("RowAdd", i, <<t, name>>, x, RowDataOf(a.row), x.err)
CallRowAdd(i, t, name) ==
    /\ Is(i, "row")
    /\ RowAddRef(i, t, name, RowAdd(View(heap, objs[i]), t, name, GivenVal(t)))

CallValByIdx(i, idx) ==
    /\ Is(i, "row")
    /\ Asks("ValByIdx", i, idx, ValByIdx(View(heap, objs[i]), idx))

CallValByName(i, name) ==
    /\ Is(i, "row")
    /\ Asks("ValByName", i, name, ValByName(View(heap, objs[i]), name))

CallMakeDF(i) ==
    /\ Is(i, "row")
    /\ Makes("MakeDF", i, "store", mciCloneRef(heap, objs[i].mci),
             StoreDataOf(MakeDF(View(heap, objs[i]))), NoErr, FALSE)

\* DF.Row, DF.RowNA and DF.RowZero, a = [row, panic] being the outcome on
\* the values: each clones the registry first
RowFrom(op, i, arg, a) ==
    Makes(op, <<i, arg>>, "row", mciCloneRef(heap, objs[i].mci),
          RowDataOf(a.row), NoErr, a.panic)
CallRowOf(i, n) == Is(i, "store") /\ RowFrom("Row", i, n, Row(View(heap, objs[i]), n))
CallRowNA(i) == Is(i, "store") /\ RowFrom("RowNA", i, 0, RowNA(View(heap, objs[i])))
CallRowZero(i) == Is(i, "store") /\ RowFrom("RowZero", i, 0, RowZero(View(heap, objs[i])))

CallCloneDF(i) ==
    /\ Is(i, "store")
    /\ Makes("Clone", i, "store", mciCloneRef(heap, objs[i].mci),
             StoreDataOf(Clone(View(heap, objs[i]))), NoErr, FALSE)

\* DF.SetColNames, a = [df, err] being the outcome on the values
SetNamesRef(i, names, a) ==
    /\ IsErr(a.err) => objs[i].data.errCount < MaxNameErrs
    /\ Changes("SetColNames", i, names, SetColNamesRef(heap, objs[i].mci, names, a),
               StoreDataOf(a.df), a.err)
CallSetNames(i, names) ==
    /\ Is(i, "store")
    /\ SetNamesRef(i, names, SetColNames(View(heap, objs[i]), names))

\* The caller makes one registry and adds descriptors to it
NextReg ==
    \/ objs = <<>> /\ \E cis \in ColInfoLists : CallNewMultiColInfo(cis)
    \/ \E ci \in ColInfos : CallAdd(1, ci)

SpecReg == InitRows /\ [][NextReg]_vars

\* The caller makes one row, adds values to it and reads it
NextRows ==
    \/ objs = <<>> /\ \E cis \in ColInfoLists : CallNewRow(cis)
    \/ \E t \in ConcreteTypes, name \in RegNames : CallRowAdd(1, t, name)
    \/ \E idx \in (0 - 1)..3 : CallValByIdx(1, idx)
    \/ \E name \in RegNames : CallValByName(1, name)
    \/ GoOn

SpecRows == InitRows /\ [][NextRows]_vars

\* The caller makes one row, derives stores and rows from what it holds,
\* adds columns to the rows and renames the columns of the stores
NextShare ==
    \/ objs = <<>> /\ \E cis \in ColInfoLists : CallNewRow(cis)
    \/ \E i \in 1..MaxObjs, name \in RegNames : CallRowAdd(i, ColTypeInt, name)
    \/ \E i \in 1..MaxObjs : CallMakeDF(i)
    \/ \E i \in 1..MaxObjs : CallRowOf(i, 0)
    \/ \E i \in 1..MaxObjs : CallRowNA(i)
    \/ \E i \in 1..MaxObjs : CallRowZero(i)
    \/ \E i \in 1..MaxObjs : CallCloneDF(i)
    \/ \E i \in 1..MaxObjs, names \in RowNameLists : CallSetNames(i, names)

SpecShare == InitRows /\ [][NextShare]_vars

-----------------------------------------------------------------------------
(* What the properties below speak about                                    *)

\* The line as the stages after comment stripping see it
Stripped(r, line) == IF r.commentRegex THEN BeforeComment(line) ELSE line

\* What the split stage's loop leaves of a stripped line: [cols, colsToSkip]
SplitOf(r, line) ==
    SkipLoop(Stripped(r, line), Len(Stripped(r, line)) - 1,
             Cardinality(r.skipCols), r.skipCols)

\* The fields of a line after comment stripping and column skipping
FieldsOf(r, line) == IF r.skipCols = {} THEN Stripped(r, line) ELSE SplitOf(r, line).cols

\* The split stage finds every configured skip position in the line
SplitsCleanly(r, line) == r.skipCols = {} \/ SplitOf(r, line).colsToSkip = 0

\* The column count the configuration fixes before any line is read (-1: none)
ConfiguredCount(r) ==
    IF Len(r.colNames) > 0 THEN Len(r.colNames)
    ELSE IF Len(r.colTypes) > 0 THEN Len(r.colTypes)
    ELSE 0 - 1

\* The number of lines, from the k-th on, that pass every stage: not among
\* the first SkipLines lines, not empty after comment stripping, not the
\* header line, and as many fields as the established column count n
\* (n < 0 until a line establishes it); first is TRUE until a line is past
\* the blank-line stage.
RECURSIVE PassFrom(_, _, _, _, _)
PassFrom(r, lines, k, first, n) ==
    IF k > Len(lines) THEN 0
    ELSE IF k <= r.skipLines \/ Stripped(r, lines[k]) = <<>>
    THEN PassFrom(r, lines, k + 1, first, n)
    ELSE IF first /\ r.hasHeader
    THEN PassFrom(r, lines, k + 1, FALSE,
                  IF n < 0 THEN Len(FieldsOf(r, lines[k])) ELSE n)
    ELSE (IF n < 0 \/ Len(FieldsOf(r, lines[k])) = n THEN 1 ELSE 0)
         + PassFrom(r, lines, k + 1, FALSE,
                    IF n < 0 THEN Len(FieldsOf(r, lines[k])) ELSE n)

PassCount(r, lines) == PassFrom(r, lines, 1, TRUE, ConfiguredCount(r))

\* The number of values column i (0-based) holds: 0 while it has no slot,
\* PanicInt when reading it panics
ColumnLen(d, i) ==
    IF i >= Len(d.valIdx) THEN 0
    ELSE IF IsConcrete(d.info[i + 1].colType)
            /\ SlotOK(ColsOfType(d, d.info[i + 1].colType), d.valIdx[i + 1])
    THEN Len(ColsOfType(d, d.info[i + 1].colType)[d.valIdx[i + 1] + 1])
    ELSE PanicInt

\* The value of column i (0-based) in row k (0-based)
CellAt(d, i, k) == ColsOfType(d, d.info[i + 1].colType)[d.valIdx[i + 1] + 1][k + 1]

\* The values of every column
Values(d) == <<d.boolCols, d.intCols, d.floatCols, d.stringCols>>

\* The step in which Read takes a line, and that line
TakesLine == pc = "reading" /\ Len(input') = Len(input) + 1
TakenLine == input'[Len(input')]

\* The taken line gets past the blank-line stage
PastBlank == state.loc + 1 > dfr.skipLines /\ Stripped(dfr, TakenLine) # <<>>

\* The sample size n the caller configured (NewDFReader adds one for a header)
SampleSize(r) == IF r.hasHeader THEN r.initialLines - 1 ELSE r.initialLines

\* The errors that state the column count and a line's field count
ArityKinds ==
    { "the dataframe has a columns but this line has b",
      "the number of columns and number of names differ" }

-----------------------------------------------------------------------------
(* Properties                                                               *)

\* C1: whenever Read returns a store, RowCount() is the number of input
\* lines that passed every stage (not skipped, not blank after comment
\* stripping, not the header, field count equal to the column count).
C1_RowCountIsPassCount ==
    (pc = "returned" /\ ret.df) => RowCount(df) = PassCount(dfr, input)

\* C2: a read without AllowErrors returns either a store and no error, the
\* store having ErrCount() 0 and no Errors(), or no store and an error.
C2_AllOrNothing ==
    (pc = "returned" /\ ~dfr.allowErrors) =>
        \/ ret.df /\ ~IsErr(ret.err) /\ ErrCount(df) = 0 /\ Errors(df) = <<>>
        \/ ~ret.df /\ IsErr(ret.err)

\* C2 witness: a read without AllowErrors has failed after rows were stored
\* and an error was recorded; the store is not returned.
C2_Witness ==
    /\ pc = "returned" /\ ~dfr.allowErrors
    /\ ~ret.df /\ IsErr(ret.err)
    /\ ErrCount(df) > 0 /\ RowCount(df) > 0

\* C3: a read with AllowErrors that took at least one line returns a store
\* and no error whatever the lines were (a failing scanner set aside).
C3_PermissiveReturnsStore ==
    (pc = "returned" /\ dfr.allowErrors /\ input # <<>> /\ ret.err.kind # "scanner")
        => (ret.df /\ ~IsErr(ret.err))

\* C4: after any sequence of calls on a store every column holds the same
\* number of values, and that number is RowCount().
C4_ColumnarInvariant ==
    pc = "store" => \A i \in 1..Len(df.info) : ColumnLen(df, i - 1) = RowCount(df)

\* C5: after k errors were recorded in a store with cap M, ErrCount() is k
\* and Errors() is the first min(k, M) of them in the order recorded.
C5_ErrorCap ==
    /\ ErrCount(df) = Len(errLog)
    /\ Errors(df) = SubSeq(errLog, 1, Min(Len(errLog), df.maxErrors))

\* C5 witness: more errors were recorded than the (positive) cap lets in
C5_Witness == df.maxErrors > 0 /\ Len(errLog) > df.maxErrors + 1

\* The sampled fields of column i (1-based)
SampledFields(i) ==
    {sample[k][i] : k \in {j \in 1..Len(sample) : i <= Len(sample[j])}}

\* C6: a column whose type is not set is guessed bool if every sampled field
\* of it parses as a bool, otherwise int if every one parses as an int,
\* otherwise float if every one parses as a float, otherwise string.
C6_InferencePrecedence ==
    pc = "guessed" =>
        /\ Len(guessed) = Len(df.info)
        /\ \A i \in 1..Len(df.info) :
              df.info[i].colType = ColTypeUnknown =>
                  guessed[i] =
                      IF \A s \in SampledFields(i) : ParseBool(s).ok THEN ColTypeBool
                      ELSE IF \A s \in SampledFields(i) : ParseInt(s).ok THEN ColTypeInt
                      ELSE IF \A s \in SampledFields(i) : ParseFloat(s).ok THEN ColTypeFloat
                      ELSE ColTypeString

\* C6 witness: two sampled rows, a column that is not all bool and not all
\* int but all float, and a column that is none of the three
C6_Witness ==
    /\ pc = "guessed" /\ Len(sample) = 2
    /\ df.info[1].colType = ColTypeUnknown
    /\ guessed = <<ColTypeFloat, ColTypeString>>
    /\ \E s \in SampledFields(1) : ParseInt(s).ok

\* C7: with inferred types and a sample size of n, a full buffer is flushed
\* holding exactly n data rows, with and without a header.
C7_SampleIsFirstN ==
    (Len(dfr.colTypes) = 0 /\ state.cacheNil /\ flushed # <<>>)
        => Len(flushed[1]) = SampleSize(dfr)

\* C8: when the input ends with rows in a buffer that never filled and Read
\* returns a store, the types were resolved from exactly those rows, once,
\* and every one of them is in the store.
C8_NoBufferedRowLost ==
    (pc = "returned" /\ ret.df /\ ~state.cacheNil /\ state.cache # <<>>)
        => (flushed = <<state.cache>> /\ RowCount(df) = Len(state.cache))

\* The cells of the taken line that do not parse as their column's type
BadCells ==
    {i \in 1..Len(df.info) :
        ~SetValOf(df.info[i].colType, FieldsOf(dfr, TakenLine)[i]).ok}

\* The taken line is a data row after the sample of a read with inferred
\* types, has the store's column count and a field that does not parse
BadRowAfterSample ==
    /\ TakesLine /\ PastBlank
    /\ Len(dfr.colTypes) = 0 /\ state.cacheNil
    /\ SplitsCleanly(dfr, TakenLine)
    /\ Len(FieldsOf(dfr, TakenLine)) = Len(df.info)
    /\ BadCells # {}

\* C9: a field after the sample that does not parse as its column's type
\* changes no column type; without AllowErrors the read fails with a
\* parsing error; with AllowErrors the row is appended, the cell is IsNA and
\* ErrCount() grows by one for each such cell.
C9_BadCellAfterSample ==
    [][BadRowAfterSample =>
         /\ df'.info = df.info
         /\ ~dfr.allowErrors =>
               /\ pc' = "returned" /\ ~ret'.df
               /\ ret'.err.kind = "parsing errors"
         /\ dfr.allowErrors =>
               /\ pc' = "reading"
               /\ RowCount(df') = RowCount(df) + 1
               /\ \A i \in 1..Len(df.info) : ColumnLen(df', i - 1) = RowCount(df')
               /\ \A i \in BadCells : CellAt(df', i - 1, RowCount(df)).IsNA
               /\ ErrCount(df') = ErrCount(df) + Cardinality(BadCells)]_vars

\* C9 witness: a read with AllowErrors and inferred types has appended, after
\* the sample, a row with a cell that is IsNA, and goes on reading
C9_Witness ==
    /\ pc = "reading" /\ dfr.allowErrors
    /\ Len(dfr.colTypes) = 0 /\ state.cacheNil /\ flushed # <<>>
    /\ RowCount(df) > Len(flushed[1])
    /\ ErrCount(df) > 0
    /\ \E i \in 1..Len(df.info) : CellAt(df, i - 1, RowCount(df) - 1).IsNA

\* The taken line gets to the stages after the split and its field count
\* differs from the column count that the configuration or an earlier line
\* established
ArityMismatch ==
    /\ TakesLine /\ PastBlank
    /\ Len(df.info) > 0 \/ state.dataLineNum > 0
    /\ Len(FieldsOf(dfr, TakenLine)) # Len(df.info)

\* What C10 says of such a line
ArityRejected ==
    /\ Values(df') = Values(df)
    /\ ~dfr.allowErrors =>
          /\ pc' = "returned" /\ ~ret'.df
          /\ ret'.err.kind \in ArityKinds
          /\ ret'.err.a = Len(df.info)
          /\ ret'.err.b = Len(FieldsOf(dfr, TakenLine))
    /\ dfr.allowErrors =>
          /\ pc' = "reading"
          /\ state'.cache = state.cache
          /\ ErrCount(df') > ErrCount(df)
          /\ Errors(df')[Len(Errors(df'))].kind \in ArityKinds
          /\ Errors(df')[Len(Errors(df'))].a = Len(df.info)
          /\ Errors(df')[Len(Errors(df'))].b = Len(FieldsOf(dfr, TakenLine))

-----------------------------------------------------------------------------
(* Column names (C11)                                                       *)

\* The names of the store's columns, in column order
ColNames(d) == [i \in 1..Len(d.info) |-> d.info[i].name]

\* The first of the lines (1-based) that gets past the blank-line stage, 0
\* when there is none
FirstDataIdx(r, lines) ==
    IF \A k \in 1..Len(lines) : k <= r.skipLines \/ Stripped(r, lines[k]) = <<>>
    THEN 0
    ELSE CHOOSE k \in 1..Len(lines) :
            /\ k > r.skipLines /\ Stripped(r, lines[k]) # <<>>
            /\ \A m \in 1..(k - 1) : m <= r.skipLines \/ Stripped(r, lines[m]) = <<>>

\* The names C11 expects once the first data line is line: the configured
\* names, the header's fields, or V0..V(n-1)
ExpectedNames(r, line) ==
    IF Len(r.colNames) # 0 THEN r.colNames
    ELSE IF r.hasHeader THEN FieldsOf(r, line)
    ELSE [i \in 1..Len(FieldsOf(r, line)) |-> DefaultName(i - 1)]

\* No column holds a value
NoValues(d) == \A t \in 1..4 : \A j \in 1..Len(Values(d)[t]) : Values(d)[t][j] = <<>>

\* A line has reached the first-data-line stage and the read goes on or has
\* returned a store
NamesDue ==
    /\ pc \in {"reading", "returned"}
    /\ pc = "returned" => ret.df
    /\ state.dataLineNum >= 1

\* C11: once a line has reached the first-data-line stage the column names
\* are the configured names, else (header mode) that line's fields, else
\* V0..V(n-1) for its n fields, and they stay so; a header line is not
\* ingested as a data row.
C11_NamesFromFirstLine ==
    NamesDue =>
        /\ ColNames(df) = ExpectedNames(dfr, input[FirstDataIdx(dfr, input)])
        /\ (dfr.hasHeader /\ state.dataLineNum = 1) =>
              (NoValues(df) /\ state.cache = <<>> /\ flushed = <<>>)

-----------------------------------------------------------------------------
(* Configured types (C12)                                                   *)

\* The types of the store's columns, in column order
ColTypes(d) == [i \in 1..Len(d.info) |-> d.info[i].colType]

\* C12: in a read with configured column types no row is ever buffered, no
\* types are resolved from a sample, and the store's columns have exactly
\* the configured types whatever the lines hold.
C12_ConfiguredTypesKept ==
    (Len(dfr.colTypes) # 0 /\ pc \in {"reading", "returned"}) =>
        /\ dfr.initialLines = 0
        /\ state.cache = <<>> /\ flushed = <<>>
        /\ (pc = "reading" \/ ret.df) =>
              (state.cacheNil /\ ColTypes(df) = dfr.colTypes)

\* C12 witness: a read with configured types (int, string) has returned a
\* store holding a row whose first field did not parse as an int
C12_Witness ==
    /\ pc = "returned" /\ ret.df
    /\ dfr.colTypes = <<ColTypeInt, ColTypeString>>
    /\ RowCount(df) >= 1
    /\ ColTypes(df) = dfr.colTypes
    /\ CellAt(df, 0, 0).IsNA

-----------------------------------------------------------------------------
(* The checks of NewDFReader (C13..C16)                                     *)

\* Every option of the list was applied without error
AllApplied(os) == ~IsErr(ApplyOpts([dfr |-> InitialDFReader, err |-> NoErr], os).err)

\* The positions (1-based) of the options of one name in the list
Positions(os, name) == {k \in 1..Len(os) : os[k].opt = name}

\* Explicit column types are among the options
TypesGiven(os) == \E k \in Positions(os, "DFRColTypes") : Len(os[k].types) > 0

\* The sample size the options leave: that of the last InitialLines, or the
\* default
SampleSizeGiven(os) ==
    IF Positions(os, "InitialLines") = {} THEN defaultInitialLines
    ELSE os[CHOOSE k \in Positions(os, "InitialLines") :
               \A m \in Positions(os, "InitialLines") : m <= k].n

\* C13: NewDFReader fails with ErrNoTypeInfo exactly when every option was
\* applied and they leave no column types and a sample size of 0, and no
\* line is read; a reader it returns has types and no buffering, or a
\* positive sample size.
C13_NoTypeInfo ==
    (pc \in {"ready", "failed"}) =>
        /\ (ret.err = ErrNoTypeInfo) <=>
              /\ AllApplied(optsGiven)
              /\ ~TypesGiven(optsGiven)
              /\ SampleSizeGiven(optsGiven) = 0
        /\ ret.err = ErrNoTypeInfo => (pc = "failed" /\ input = <<>>)
        /\ pc = "ready" =>
              \/ Len(dfr.colTypes) # 0 /\ dfr.initialLines = 0
              \/ Len(dfr.colTypes) = 0 /\ dfr.initialLines > 0

\* C13 witness: NewDFReader has failed with ErrNoTypeInfo on three options,
\* the last of them InitialLines(0)
C13_Witness ==
    /\ pc = "failed" /\ ret.err = ErrNoTypeInfo
    /\ Len(optsGiven) = 3
    /\ optsGiven[3] = InitialLines(0)
    /\ optsGiven[1] = InitialLines(1)


\* HasHeader and DFRColNames are both among the options
HeaderAndNames(os) ==
    Positions(os, "HasHeader") # {} /\ Positions(os, "DFRColNames") # {}

\* The position (1-based) at which the list first holds both an option of
\* name n1 and one of name n2
FirstBoth(os, n1, n2) ==
    CHOOSE k \in 1..Len(os) :
        /\ Positions(SubSeq(os, 1, k), n1) # {}
        /\ Positions(SubSeq(os, 1, k), n2) # {}
        /\ Positions(SubSeq(os, 1, k - 1), n1) = {}
           \/ Positions(SubSeq(os, 1, k - 1), n2) = {}

\* C14 as stated: with HasHeader and DFRColNames both among the options
\* NewDFReader fails with ErrHasNamesAndHeader, whichever comes first.
C14_HeaderAndNames ==
    (pc \in {"ready", "failed"} /\ HeaderAndNames(optsGiven)) =>
        (pc = "failed" /\ ret.err = ErrHasNamesAndHeader)

\* C14 amended: NewDFReader fails whenever both are among the options, and
\* with ErrHasNamesAndHeader when every option before the later of the two
\* was applied without error.
C14_HeaderAndNamesApplied ==
    (pc \in {"ready", "failed"} /\ HeaderAndNames(optsGiven)) =>
        /\ pc = "failed" /\ IsErr(ret.err)
        /\ AllApplied(SubSeq(optsGiven, 1,
                             FirstBoth(optsGiven, "HasHeader", "DFRColNames") - 1))
              => ret.err = ErrHasNamesAndHeader

\* C14 witness: NewDFReader has failed with ErrHasNamesAndHeader on a list
\* with DFRColNames first and HasHeader last
C14_Witness ==
    /\ pc = "failed" /\ ret.err = ErrHasNamesAndHeader
    /\ Len(optsGiven) = 3
    /\ optsGiven[1].opt = "DFRColNames"
    /\ optsGiven[3] = HasHeader


\* Names and types of different lengths are both among the options
LengthsDiffer(os) ==
    \E i \in Positions(os, "DFRColNames"), j \in Positions(os, "DFRColTypes") :
        /\ Len(os[i].names) # 0 /\ Len(os[j].types) # 0
        /\ Len(os[i].names) # Len(os[j].types)

\* C15: NewDFReader fails when names and types of different lengths are both
\* among the options, whichever comes first; in a reader it returns with
\* both set the two lists have the same length.
C15_NamesAndTypesLengths ==
    (pc \in {"ready", "failed"}) =>
        /\ LengthsDiffer(optsGiven) => (pc = "failed" /\ IsErr(ret.err))
        /\ (pc = "ready" /\ Len(dfr.colNames) # 0 /\ Len(dfr.colTypes) # 0)
              => Len(dfr.colNames) = Len(dfr.colTypes)

\* C15 witness: NewDFReader has failed on names after types of another
\* length with the error that states the two lengths
C15_Witness ==
    /\ pc = "failed"
    /\ ret.err = MkErr("the number of column types and names differ", 1, 2, {})
    /\ Len(optsGiven) = 2
    /\ optsGiven[1].opt = "DFRColTypes" /\ optsGiven[2].opt = "DFRColNames"


\* The options that can be given once, and the error each returns when the
\* reader already has what it sets
SetOnce == {"DFRColNames", "DFRColTypes", "DFRSkipCols"}
AlreadySet(name) ==
    CASE name = "DFRColNames" -> ErrNamesAlreadySet
      [] name = "DFRColTypes" -> ErrTypesAlreadySet
      [] OTHER -> ErrSkipIndexesAlreadySet

\* The position (1-based) of the second option of a name
SecondOf(os, name) ==
    CHOOSE k \in Positions(os, name) :
        Cardinality({m \in Positions(os, name) : m < k}) = 1

\* The option is applied a second time: the list holds it twice and every
\* option before the second was applied without error
AppliedTwice(os, name) ==
    /\ Cardinality(Positions(os, name)) >= 2
    /\ AllApplied(SubSeq(os, 1, SecondOf(os, name) - 1))

\* The list an option carries is empty
EmptyArg(o) == Len(o.names) = 0 /\ Len(o.types) = 0 /\ Len(o.skips) = 0

\* C16 as stated: applying DFRColNames, DFRColTypes or DFRSkipCols a second
\* time makes NewDFReader fail with ErrNamesAlreadySet, ErrTypesAlreadySet
\* or ErrSkipIndexesAlreadySet, and no reader is returned.
C16_SetTwice ==
    (pc \in {"ready", "failed"}) =>
        \A name \in SetOnce :
            AppliedTwice(optsGiven, name) =>
                (pc = "failed" /\ ret.err = AlreadySet(name))

\* C16 amended: the second application fails and no reader is returned; the
\* error is the already-set one when the second application carries a
\* non-empty list.
C16_SetTwiceNonEmpty ==
    (pc \in {"ready", "failed"}) =>
        \A name \in SetOnce :
            AppliedTwice(optsGiven, name) =>
                /\ pc = "failed" /\ IsErr(ret.err)
                /\ ~EmptyArg(optsGiven[SecondOf(optsGiven, name)])
                      => ret.err = AlreadySet(name)

\* C16 witness: NewDFReader has failed with ErrSkipIndexesAlreadySet on the
\* second DFRSkipCols of a list of three options
C16_Witness ==
    /\ pc = "failed" /\ ret.err = ErrSkipIndexesAlreadySet
    /\ Len(optsGiven) = 3
    /\ optsGiven[1].opt = "DFRSkipCols" /\ optsGiven[3].opt = "DFRSkipCols"
    /\ optsGiven[2].opt # "DFRSkipCols"

-----------------------------------------------------------------------------
(* Rows and columns read back (C17..C20)                                    *)

\* The value a row holds for column c (1-based): that of its type at its slot
RowValue(row, c) == ValsOfType(row, row.info[c].colType)[row.valIdx[c] + 1]

\* The row has the store's column layout
SameLayout(row, d) ==
    row.info = d.info /\ row.valIdx = d.valIdx /\ row.nameToCol = d.nameToCol

\* Every value of the row is IsNA, one value for each column of its type
AllNA(row) ==
    \A t \in QueryTypes :
        /\ Len(ValsOfType(row, t)) = Len(TypedCols(row.info, t))
        /\ \A k \in 1..Len(ValsOfType(row, t)) : ValsOfType(row, t)[k].IsNA

\* The caller has asked for a row
RowAsked == pc \in {"queried", "panicked"} /\ got.op = "Row"

\* C17: Row(i) never fails and returns a row with the store's layout; for
\* 0 <= i < RowCount() its values are the i-th values of the columns, and
\* for any other i every value is IsNA.
C17_RowNeverFails ==
    RowAsked =>
        /\ ~got.out.panic
        /\ SameLayout(got.out.row, df)
        /\ IF got.arg >= 0 /\ got.arg < RowCount(df)
           THEN \A c \in 1..Len(df.info) :
                   RowValue(got.out.row, c) = CellAt(df, c - 1, got.arg)
           ELSE AllNA(got.out.row)


\* The slot of every column of a registry (-2 for a column without one)
SlotsOf(m) ==
    [c \in 1..Len(m.info) |-> IF c <= Len(m.valIdx) THEN m.valIdx[c] ELSE 0 - 2]

\* The row's registry matches the store's: the same column count and, for
\* each column, the same type, name and slot
RegistryMatches(row, d) ==
    /\ Len(row.info) = Len(d.info)
    /\ row.info = d.info
    /\ SlotsOf(row) = SlotsOf(d)

\* The values of column c (1-based) of the store, when it can be read
HasColumn(d, c) ==
    /\ c <= Len(d.valIdx)
    /\ IsConcrete(d.info[c].colType)
    /\ SlotOK(ColsOfType(d, d.info[c].colType), d.valIdx[c])
ColumnOf(d, c) == ColsOfType(d, d.info[c].colType)[d.valIdx[c] + 1]

\* The row holds a value for its column c (1-based)
HasValue(row, c) ==
    /\ c <= Len(row.valIdx)
    /\ SlotOK(ValsOfType(row, row.info[c].colType), row.valIdx[c])

\* The step in which the caller calls AddRow
AddRowStep ==
    /\ pc = "store"
    /\ Len(calls') = Len(calls) + 1
    /\ calls'[Len(calls')].op = "AddRow"

\* C19: AddRow succeeds exactly when the row's registry matches the
\* store's; then every column grows by the row's value for it; otherwise it
\* returns an error, does not panic, and leaves every column, the row count
\* and the error count as they were.
C19_AddRowMatches ==
    [][AddRowStep =>
         /\ ~got'.out.panic
         /\ ~IsErr(got'.out.err) <=> RegistryMatches(got'.arg, df)
         /\ RegistryMatches(got'.arg, df) =>
               \A c \in 1..Len(df.info) :
                   /\ HasColumn(df, c) /\ HasColumn(df', c) /\ HasValue(got'.arg, c)
                   /\ ColumnOf(df', c) = Append(ColumnOf(df, c), RowValue(got'.arg, c))
         /\ ~RegistryMatches(got'.arg, df) =>
               /\ Values(df') = Values(df)
               /\ RowCount(df') = RowCount(df)
               /\ ErrCount(df') = ErrCount(df)]_vars

\* The caller has asked for a column's values, or for a column's descriptor
ColAsked == pc \in {"queried", "panicked"} /\ got.op \in {"ColByName", "ColByIdx"}
InfoAsked == pc \in {"queried", "panicked"} /\ got.op \in {"ColInfoByName", "ColInfoByIdx"}

\* The column (1-based) an accessor was asked for by name or by 0-based
\* index; 0 for an unknown name or an index outside [0, ColCount())
ColNamed(d, name) ==
    IF \E c \in 1..Len(d.info) : d.info[c].name = name
    THEN CHOOSE c \in 1..Len(d.info) : d.info[c].name = name
    ELSE 0
ColIndexed(d, i) == IF i >= 0 /\ i < Len(d.info) THEN i + 1 ELSE 0
AskedCol ==
    CASE got.op = "ColByName" -> ColNamed(df, got.arg[2])
      [] got.op = "ColByIdx" -> ColIndexed(df, got.arg[2])
      [] got.op = "ColInfoByName" -> ColNamed(df, got.arg)
      [] got.op = "ColInfoByIdx" -> ColIndexed(df, got.arg)
      [] OTHER -> 0

\* C20: the by-name and by-index column accessors never panic; they return
\* an error for an unknown name, an index outside [0, ColCount()) or a
\* column of another type, and otherwise the column's values or descriptor.
C20_AccessorsNeverPanic ==
    /\ ColAsked =>
          /\ ~got.out.panic
          /\ IF AskedCol = 0 THEN IsErr(got.out.err)
             ELSE IF df.info[AskedCol].colType # got.arg[1] THEN IsErr(got.out.err)
             ELSE /\ ~IsErr(got.out.err)
                  /\ HasColumn(df, AskedCol)
                  /\ got.out.val = ColumnOf(df, AskedCol)
    /\ InfoAsked =>
          /\ ~got.out.panic
          /\ IF AskedCol = 0 THEN IsErr(got.out.err)
             ELSE ~IsErr(got.out.err) /\ got.out.val = df.info[AskedCol]

\* The reader was given both the names and the types of the columns
ExplicitNamesAndTypes == Len(dfr.colNames) # 0 /\ Len(dfr.colTypes) # 0

\* The first n values of a column
FirstValues(col, n) == [k \in 1..n |-> col[k]]

\* The caller is copying the returned store row by row, or has stopped
Copying == pc \in {"copying", "copyfailed"}

\* C18: for a store Read built with explicit names and types from
\* well-formed lines, appending Row(0), Row(1), ... in order with AddRow to
\* Clone() of the store succeeds for every row, and after n rows every
\* column of the clone holds the first n values of the store's column; after
\* all RowCount() rows the clone has the store's columns and values.
C18_RoundTrip ==
    (Copying /\ ExplicitNamesAndTypes /\ ErrCount(df) = 0) =>
        /\ pc = "copying"
        /\ ~got.out.panic /\ ~IsErr(got.out.err)
        /\ got.arg <= RowCount(df)
        /\ got.out.df.info = df.info
        /\ got.out.df.nameToCol = df.nameToCol
        /\ RowCount(got.out.df) = got.arg
        /\ \A c \in 1..Len(df.info) :
              /\ HasColumn(df, c) /\ HasColumn(got.out.df, c)
              /\ ColumnOf(got.out.df, c) = FirstValues(ColumnOf(df, c), got.arg)
        /\ got.arg = RowCount(df) => Values(got.out.df) = Values(df)

\* C18 witness: a store of two different rows has been copied whole
C18_Witness ==
    /\ pc = "copying" /\ ExplicitNamesAndTypes /\ ErrCount(df) = 0
    /\ RowCount(df) = 2 /\ got.arg = 2
    /\ Row(df, 0).row # Row(df, 1).row
    /\ Values(got.out.df) = Values(df)


\* The step in which the caller makes the call op on the store, and the call
CallStep(op) ==
    /\ pc = "store"
    /\ Len(calls') = Len(calls) + 1
    /\ calls'[Len(calls')].op = op
TheCall == calls'[Len(calls')]

\* The first position (0-based) of a type list that holds a type other than
\* the four concrete ones; -1 when there is none
FirstNonConcrete(types) ==
    IF \E i \in 1..Len(types) : ~IsConcrete(types[i])
    THEN (CHOOSE i \in 1..Len(types) :
             /\ ~IsConcrete(types[i])
             /\ \A j \in 1..(i - 1) : IsConcrete(types[j])) - 1
    ELSE 0 - 1

\* The error the store recorded last
LastError(d) == Errors(d)[Len(Errors(d))]

\* C21: SetColTypes fails, naming the offending index and type, whenever a
\* given type is not one of the four concrete types (the unknown sentinel,
\* the guard value or anything above it), so no column gets a non-concrete
\* type through SetColTypes.
C21_OnlyConcreteTypes ==
    [][(CallStep("SetColTypes") /\ FirstNonConcrete(TheCall.types) >= 0) =>
          /\ ErrCount(df') = ErrCount(df) + 1
          /\ Len(Errors(df')) = Len(Errors(df)) + 1
          /\ LastError(df').kind = "bad column type"
          /\ LastError(df').a = FirstNonConcrete(TheCall.types)
          /\ LastError(df').b = TheCall.types[FirstNonConcrete(TheCall.types) + 1]
          /\ df'.info = df.info]_vars

\* The fields of a line at the positions (0-based) not in S, in their order
KeptPositions(line, S) == {i \in 0..(Len(line) - 1) : i \notin S}
KthKept(line, S, k) ==
    CHOOSE i \in KeptPositions(line, S) :
        Cardinality({j \in KeptPositions(line, S) : j < i}) = k - 1
Kept(line, S) ==
    [k \in 1..Cardinality(KeptPositions(line, S)) |-> line[KthKept(line, S, k) + 1]]

\* splitLine has been applied to a line that has a field at every skip position
SplitWhole == pc = "splitdone" /\ \A i \in dfr.skipCols : i < Len(state.line)

BlankTaken ==
    /\ TakesLine
    /\ state.loc + 1 > dfr.skipLines
    /\ Stripped(dfr, TakenLine) = <<>>

ConfigFailsInRead ==
    /\ pc = "returned"
    /\ input = <<>>
    /\ ~ret.df
    /\ IsErr(ret.err)
    /\ ret.err = makeDF(dfr).err

\* C24: every configuration error is reported by NewDFReader, so a reader
\* that was constructed successfully never fails in Read because of its
\* configuration alone.
C24_ConfigErrorsAtConstruction == ~ConfigFailsInRead

\* DFRSkipCols is among the options with an empty list, a negative index or
\* a duplicate index, and the caller has gone on from there
BadSkipColsGiven ==
    /\ pc # "config"
    /\ \E k \in Positions(optsGiven, "DFRSkipCols") :
          \/ Len(optsGiven[k].skips) = 0
          \/ \E i \in 1..Len(optsGiven[k].skips) : optsGiven[k].skips[i] < 0
          \/ Cardinality({optsGiven[k].skips[i] : i \in 1..Len(optsGiven[k].skips)})
                 < Len(optsGiven[k].skips)

\* C25: giving DFRSkipCols an empty list, a negative index or a duplicate
\* index makes NewDFReader return an error and no reader; the failure is a
\* returned error, not an abnormal termination.
C25_BadSkipColsIsError ==
    BadSkipColsGiven =>
        /\ pc = "failed"
        /\ IsErr(ret.err)
        /\ dfr = NoReader


\* The slot map has one entry per column, and each column's slot is the
\* number of earlier columns of its type
SlotMapOK(d) ==
    /\ Len(d.valIdx) = Len(d.info)
    /\ \A c \in 1..Len(d.info) :
          d.valIdx[c] = Cardinality({k \in 1..(c - 1) :
                                        d.info[k].colType = d.info[c].colType})

\* C26: in every store reachable by SetColNames and SetColTypes calls the
\* slot map has exactly one entry per column descriptor and each column's
\* slot equals the number of earlier columns of the same type.
C26_SlotMap == SlotMapOK(df)


\* The step is a SetColNames or SetColTypes call that returns an error
SetCallFails ==
    \/ CallStep("SetColNames") /\ IsErr(SetColNames(df, TheCall.names).err)
    \/ CallStep("SetColTypes") /\ IsErr(SetColTypes(df, TheCall.types).err)

\* C27: whenever SetColNames or SetColTypes returns an error, the store's
\* column count, names and types are as before the call and exactly one
\* error is added, whatever the store was (a store with no columns included).
C27_FailedSetLeavesColumns ==
    [][SetCallFails =>
          /\ ColCount(df') = ColCount(df)
          /\ df'.info = df.info
          /\ ErrCount(df') = ErrCount(df) + 1]_vars


\* The fields handed to AddRowFromText in the step
TheFields == TheCall.rows[1]

\* The positions (1-based) of the fields that do not parse as their column's type
BadFields(d, cols) ==
    {c \in 1..Len(d.info) : ~SetValOf(d.info[c].colType, cols[c]).ok}

\* C28: AddRowFromText with a field list whose length differs from the
\* column count appends nothing and records exactly one error; with a
\* matching length it appends exactly one value to every column, an
\* unavailable (IsNA) value with one recorded error for each field that
\* does not parse as its column's type.
C28_AddRowFromText ==
    [][CallStep("AddRowFromText") =>
          IF Len(TheFields) # ColCount(df)
          THEN /\ pc' = "store"
               /\ Values(df') = Values(df)
               /\ ErrCount(df') = ErrCount(df) + 1
          ELSE /\ pc' = "store"
               /\ \A c \in 1..Len(df.info) :
                     /\ HasColumn(df, c) /\ HasColumn(df', c)
                     /\ Len(ColumnOf(df', c)) = Len(ColumnOf(df, c)) + 1
                     /\ ColumnOf(df', c) =
                           Append(ColumnOf(df, c),
                                  SetValOf(df.info[c].colType, TheFields[c]).v)
                     /\ ColumnOf(df', c)[Len(ColumnOf(df', c))].IsNA
                           <=> c \in BadFields(df, TheFields)
               /\ ErrCount(df') = ErrCount(df) + Cardinality(BadFields(df, TheFields))]_vars


\* Every call made on the store so far is SetColNames or SetColTypes
OnlySetCalls == \A k \in 1..Len(calls) : calls[k].op \in {"SetColNames", "SetColTypes"}

\* C29: for every store reachable by SetColNames and SetColTypes calls,
\* AddRowFromText with as many fields as the store has columns completes
\* normally and increases RowCount() by exactly one.
C29_AddRowFromTextCompletes ==
    [][(CallStep("AddRowFromText") /\ OnlySetCalls /\ Len(TheFields) = ColCount(df)) =>
          /\ pc' = "store"
          /\ RowCount(df) # PanicInt /\ RowCount(df') # PanicInt
          /\ RowCount(df') = RowCount(df) + 1]_vars


\* Column c (1-based) of the store has one of the four concrete types and a
\* slot that holds a value array
TypedWithSlot(d, c) ==
    /\ IsConcrete(d.info[c].colType)
    /\ c <= Len(d.valIdx)
    /\ SlotOK(ColsOfType(d, d.info[c].colType), d.valIdx[c])

\* C30: every column of a store returned by Read has one of the four
\* concrete types (never unknown) and a slot, for every input.
C30_ReadColumnsTyped ==
    (pc = "returned" /\ ret.df) => \A c \in 1..Len(df.info) : TypedWithSlot(df, c)


\* The fields of the lines, from the k-th on, that pass every stage, in the
\* order of the input (the lines PassFrom counts)
RECURSIVE AcceptedFrom(_, _, _, _, _)
AcceptedFrom(r, lines, k, first, n) ==
    IF k > Len(lines) THEN <<>>
    ELSE IF k <= r.skipLines \/ Stripped(r, lines[k]) = <<>>
    THEN AcceptedFrom(r, lines, k + 1, first, n)
    ELSE IF first /\ r.hasHeader
    THEN AcceptedFrom(r, lines, k + 1, FALSE,
                      IF n < 0 THEN Len(FieldsOf(r, lines[k])) ELSE n)
    ELSE (IF n < 0 \/ Len(FieldsOf(r, lines[k])) = n
          THEN <<FieldsOf(r, lines[k])>> ELSE <<>>)
         \o AcceptedFrom(r, lines, k + 1, FALSE,
                         IF n < 0 THEN Len(FieldsOf(r, lines[k])) ELSE n)

Accepted(r, lines) == AcceptedFrom(r, lines, 1, TRUE, ConfiguredCount(r))

\* Row i (0-based) of the store holds the parsed fields of the line
HoldsLine(d, i, fields) ==
    /\ Len(fields) = Len(d.info)
    /\ \A c \in 1..Len(d.info) :
          /\ HasColumn(d, c)
          /\ i < Len(ColumnOf(d, c))
          /\ ColumnOf(d, c)[i + 1] = SetValOf(d.info[c].colType, fields[c]).v

\* The rows of the returned store are the accepted lines, in their order
RowsInInputOrder ==
    (pc = "returned" /\ ret.df) =>
        \A i \in 0..(RowCount(df) - 1) :
            /\ i < Len(Accepted(dfr, input))
            /\ HoldsLine(df, i, Accepted(dfr, input)[i + 1])

\* While rows are buffered the store holds none, and a line is buffered or
\* rejected, never appended directly, unless the step flushes the buffer
FlushBeforeDirect ==
    (TakesLine /\ ~state.cacheNil) =>
        /\ RowCount(df) = 0
        /\ ~state'.cacheNil => Values(df') = Values(df)
        /\ (state'.cacheNil /\ pc' = "reading" /\ RowCount(df') > 0) =>
              /\ RowCount(df') = Len(state.cache) + 1
              /\ \A i \in 0..(Len(state.cache) - 1) : HoldsLine(df', i, state.cache[i + 1])

\* Buffering, once deactivated, stays deactivated
NeverReactivated == (pc = "reading" /\ state.cacheNil) => state'.cacheNil

\* C31: the store preserves input order: after any Read row i of the store
\* holds the parsed fields of the i-th accepted data line; buffered rows
\* are flushed, in order, before any row is appended directly, and once
\* buffering is deactivated it is never reactivated during that read.
C31_InputOrder ==
    /\ []RowsInInputOrder
    /\ [][FlushBeforeDirect]_vars
    /\ [][NeverReactivated]_vars

\* C31 witness: a read with inferred types has returned a store of three
\* rows, the first two flushed from the buffer and the third appended
\* directly, the first and the last from different lines
C31_Witness ==
    /\ pc = "returned" /\ ret.df
    /\ Len(dfr.colTypes) = 0
    /\ RowCount(df) = 3
    /\ Len(flushed) = 1 /\ Len(flushed[1]) = 2
    /\ input[1] # input[3]


\* The rows the step hands to populateDF, when it flushes the buffer: the
\* step takes the line that fills the buffer, or the input ends with rows
\* in the buffer
FillsBuffer == TakesLine /\ ~state.cacheNil /\ state'.cacheNil
EndsWithBuffer ==
    /\ pc = "reading" /\ input' = input
    /\ pc' \in {"returned", "panicked"}
    /\ ret'.err.kind # "scanner"
    /\ state.cache # <<>>
FlushStep == Len(dfr.colTypes) = 0 /\ (FillsBuffer \/ EndsWithBuffer)
FlushedRows == IF FillsBuffer THEN Append(state.cache, FieldsOf(dfr, TakenLine)) ELSE state.cache

\* C32: rows flushed from the inference buffer never fail to parse: in a
\* read with inferred types every buffered row has exactly the column count
\* of fields and every one of its values is stored as available (not IsNA),
\* so flushing the buffer adds no error to the accumulator.
C32_FlushNeverFails ==
    [][FlushStep =>
          /\ pc' # "panicked"
          /\ ErrCount(df') = ErrCount(df)
          /\ RowCount(df') = Len(FlushedRows)
          /\ \A k \in 1..Len(FlushedRows) :
                /\ Len(FlushedRows[k]) = ColCount(df')
                /\ \A c \in 1..Len(df'.info) :
                      /\ HasColumn(df', c)
                      /\ k <= Len(ColumnOf(df', c))
                      /\ ~ColumnOf(df', c)[k].IsNA]_vars


\* The number of lines rejected as blank: past the skipped lines, empty
\* after comment stripping, in a read without SkipBlankLines
BlankRejectedCount(r, lines) ==
    IF r.skipBlankLines THEN 0
    ELSE Cardinality({k \in 1..Len(lines) :
                         k > r.skipLines /\ Stripped(r, lines[k]) = <<>>})

\* The number of lines, from the k-th on, rejected for their field count
\* (the lines PassFrom leaves out for it)
RECURSIVE ArityCountFrom(_, _, _, _, _)
ArityCountFrom(r, lines, k, first, n) ==
    IF k > Len(lines) THEN 0
    ELSE IF k <= r.skipLines \/ Stripped(r, lines[k]) = <<>>
    THEN ArityCountFrom(r, lines, k + 1, first, n)
    ELSE IF first /\ r.hasHeader
    THEN ArityCountFrom(r, lines, k + 1, FALSE,
                           IF n < 0 THEN Len(FieldsOf(r, lines[k])) ELSE n)
    ELSE (IF n < 0 \/ Len(FieldsOf(r, lines[k])) = n THEN 0 ELSE 1)
         + ArityCountFrom(r, lines, k + 1, FALSE,
                             IF n < 0 THEN Len(FieldsOf(r, lines[k])) ELSE n)

ArityRejectedCount(r, lines) == ArityCountFrom(r, lines, 1, TRUE, ConfiguredCount(r))

\* The number of cells of the accepted lines that do not parse as their
\* column's type
UnparsedCells(d, rows) ==
    Cardinality({p \in (1..Len(rows)) \X (1..Len(d.info)) :
                    /\ p[2] <= Len(rows[p[1]])
                    /\ ~SetValOf(d.info[p[2]].colType, rows[p[1]][p[2]]).ok})

\* C33: in a permissive read, ErrCount() of the returned store is the
\* number of blank-rejected lines plus the number of arity-rejected lines
\* plus the number of cells that failed to parse.
C33_ErrCountIsFailures ==
    (pc = "returned" /\ ret.df /\ dfr.allowErrors) =>
        ErrCount(df) = BlankRejectedCount(dfr, input) + ArityRejectedCount(dfr, input)
                          + UnparsedCells(df, Accepted(dfr, input))

\* The candidate flags of the store's columns after scanning rows
FlagsAfter(rows) == tryParse(initTypeSlice(Len(df.info)), rows)

\* The sample in every order
Orders(n) == {p \in [1..n -> 1..n] : \A i, j \in 1..n : p[i] = p[j] => i = j}
Permuted(rows, p) == [k \in 1..Len(rows) |-> rows[p[k]]]

\* The candidate types the flags v hold
Candidates(v) == {f \in {BitFlagBool, BitFlagInt, BitFlagFloat} : HasBit(v, f)}

\* C34: type inference is order-independent and monotonic: permuting the
\* sampled rows leaves every column's candidate set and resolved type
\* unchanged, and the candidate set after any prefix of the sample is a
\* superset of the candidate set after a longer prefix.
C34_InferenceOrderFree ==
    pc = "guessed" =>
        /\ \A p \in Orders(Len(sample)) :
              /\ FlagsAfter(Permuted(sample, p)) = FlagsAfter(sample)
              /\ guessColTypes(df.info, Permuted(sample, p)) = guessed
        /\ \A k \in 0..Len(sample), m \in 0..Len(sample) :
              k <= m =>
                 \A i \in 1..Len(df.info) :
                    Candidates(FlagsAfter(SubSeq(sample, 1, m))[i])
                       \subseteq Candidates(FlagsAfter(SubSeq(sample, 1, k))[i])

\* C34 witness: two different rows were sampled, the second of which takes
\* a candidate from a column, and the first of which takes another
C34_Witness ==
    /\ pc = "guessed" /\ Len(sample) = 2
    /\ sample[1] # sample[2]
    /\ Candidates(FlagsAfter(<<sample[1]>>)[1]) # Candidates(FlagsAfter(sample)[1])
    /\ Candidates(FlagsAfter(<<sample[2]>>)[1]) # Candidates(FlagsAfter(sample)[1])


\* splitLine has been applied to a line that lacks a field at some skip position
SplitShort == pc = "splitdone" /\ \E i \in dfr.skipCols : i >= Len(state.line)

\* C35: when a line has too few fields for some configured skip-column
\* position, the split stage records an error that names every configured
\* position lying beyond the end of that line and only those positions: no
\* position that was present in the line (and removed) is named.
C35_SkipErrorNamesMissing ==
    SplitShort =>
        /\ ret.err.kind = "some skip columns are after the end of the line"
        /\ ErrCount(df) = 1
        /\ LastError(df) = ret.err
        /\ ret.err.idx = {i \in dfr.skipCols : i >= Len(state.line)}


\* Read's scanner loop over lines from the k-th on, x being what the line
\* before left: the loop stops at the first error
RECURSIVE ReadLinesFrom(_, _, _, _)
ReadLinesFrom(r, x, lines, k) ==
    IF k > Len(lines) \/ x.panic \/ IsErr(x.err) THEN x
    ELSE ReadLinesFrom(r, ProcessLine(r, x.c, lines[k]), lines, k + 1)

\* The reader r without its SkipLines, and a read by r about to take its
\* first line, the scanner being n lines into the input
Unskipped(r) == [r EXCEPT !.skipLines = 0]
FreshAt(r, n) ==
    Result([state |-> [newDFReadState(r) EXCEPT !.loc = n],
            df |-> makeDF(r).df, flushed |-> <<>>], FALSE, NoErr)

\* The lines of the input after the first n
After(lines, n) == SubSeq(lines, n + 1, Len(lines))

\* What Read holds is what x, the outcome of a scanner loop, left (the text
\* of the line last scanned apart)
ReadHolds(x) ==
    /\ ~x.panic /\ ~IsErr(x.err)
    /\ x.c.df = df
    /\ x.c.flushed = flushed
    /\ [x.c.state EXCEPT !.line = <<>>] = [state EXCEPT !.line = <<>>]

\* Read is among the lines to skip: nothing but the line counter has moved
StillFresh ==
    (pc = "reading" /\ Len(input) <= dfr.skipLines) =>
        ReadHolds(FreshAt(dfr, Len(input)))

\* Read is past the lines to skip: it holds what a read without SkipLines of
\* the lines after them holds (the line counter still counts every line)
LikeUnskipped ==
    (pc = "reading" /\ Len(input) > dfr.skipLines) =>
        ReadHolds(ReadLinesFrom(Unskipped(dfr), FreshAt(dfr, dfr.skipLines),
                                After(input, dfr.skipLines), 1))

\* The step that takes one of the lines to skip neither ends the read nor
\* records anything
SkippedLineStep ==
    (TakesLine /\ Len(input) < dfr.skipLines) =>
        /\ pc' = "reading"
        /\ df' = df
        /\ ret' = ret

\* The step that takes a later line ends as the same step of a read without
\* SkipLines ends
LaterLineStep ==
    (TakesLine /\ Len(input) >= dfr.skipLines) =>
        \E x \in {ProcessLine(Unskipped(dfr),
                              [state |-> state, df |-> df, flushed |-> flushed],
                              TakenLine)} :
           /\ (pc' = "panicked") = x.panic
           /\ (pc' = "returned") = (~x.panic /\ IsErr(x.err))
           /\ pc' = "returned" => ret'.err = x.err
           /\ df' = x.c.df

\* C36: the first SkipLines(n) physical lines of the input are discarded
\* before any other stage runs: whatever their content they record no error,
\* are never taken as the header or first data line, and contribute no row;
\* the line after them is then treated exactly like the first line of an
\* input read without skipping.
C36_SkippedLinesDiscarded ==
    /\ [](StillFresh /\ LikeUnskipped)
    /\ [][SkippedLineStep /\ LaterLineStep]_vars

\* C36 witness: a read with a header skipped a line of one field, took the
\* next line, of two fields, as the header and the third as a row
C36_Witness ==
    /\ pc = "returned" /\ ret.df
    /\ dfr.skipLines = 1 /\ dfr.hasHeader
    /\ Len(input) = 3
    /\ Len(input[1]) = 1 /\ Len(input[2]) = 2
    /\ RowCount(df) = 1
    /\ ErrCount(df) = 0


\* The registry of what the caller holds at j, before and after the step
RegOf(j) == Deref(heap, objs[j].mci)
RegAfter(j) == Deref(heap', objs'[j].mci)

\* The step in which a column is added to a row or the columns of a store
\* are renamed, and the step in which a row or store is derived from the
\* store or row at got'.arg[1]
ChangingStep ==
    /\ pc = "rows" /\ pc' = "rows"
    /\ got'.op \in {"RowAdd", "SetColNames"}
DerivingStep ==
    /\ pc = "rows" /\ pc' = "rows"
    /\ Len(objs') = Len(objs) + 1
    /\ got'.op \in {"Row", "RowNA", "RowZero", "Clone", "MakeDF"}
Source == IF got'.op \in {"Clone", "MakeDF"} THEN got'.arg ELSE got'.arg[1]

\* C37: a row obtained from a store (Row, RowNA, RowZero) and a store
\* obtained from Clone or Row.MakeDF own an independent copy of the
\* registry: later adding a column to the row (AddBool etc.) or renaming the
\* store's columns (SetColNames) changes neither the other's column list,
\* nor its slot map, nor its name lookup.
C37_RegistryCopiesIndependent ==
    /\ [][DerivingStep =>
            /\ RegAfter(Len(objs')) = RegOf(Source)
            /\ \A j \in 1..Len(objs) : RegAfter(j) = RegOf(j)]_vars
    /\ [][ChangingStep =>
            \A j \in 1..Len(objs) : j # got'.arg[1] => RegAfter(j) = RegOf(j)]_vars

\* C37 witness: a store was made from a row and renamed, a row was taken
\* from the store and a column added to it
C37_Witness ==
    /\ pc = "rows" /\ Len(objs) = 3
    /\ objs[1].kind = "row" /\ objs[2].kind = "store" /\ objs[3].kind = "row"
    /\ got.op = "RowAdd" /\ got.arg[1] = 3 /\ ~IsErr(got.out.err)
    /\ Len(Deref(heap, objs[1].mci).info) = 1
    /\ Deref(heap, objs[2].mci).info # Deref(heap, objs[1].mci).info
    /\ Deref(heap, objs[3].mci).info
          = Append(Deref(heap, objs[2].mci).info, CI("a", ColTypeInt))


\* The step in which Add is called on the caller's registry, and its descriptor
AddStep == pc = "rows" /\ got'.op = "Add"
Added == got'.arg[2]

\* The descriptor has a blank name, a type that is none of the four, or a
\* name the registry has
Rejectable(reg, ci) ==
    \/ ci.name = ""
    \/ ci.colType \notin ConcreteTypes
    \/ \E k \in 1..Len(reg.info) : reg.info[k].name = ci.name

\* The names of the registry are unique and its lookup maps each of them,
\* and nothing else, to its position
LookupExact(reg) ==
    /\ \A j, k \in 1..Len(reg.info) : reg.info[j].name = reg.info[k].name => j = k
    /\ DOMAIN reg.nameToCol = {reg.info[k].name : k \in 1..Len(reg.info)}
    /\ \A k \in 1..Len(reg.info) : reg.nameToCol[reg.info[k].name] = k - 1

\* C38: MultiColInfo.Add rejects a descriptor with a blank name, a
\* non-concrete type, or a name already present, and then leaves the
\* registry unchanged; otherwise it appends the descriptor with slot equal
\* to the number of previously registered columns of the same type, so after
\* any sequence of Add calls names are unique and the name lookup maps every
\* name to its position.
C38_AddKeepsRegistry ==
    /\ [][AddStep =>
            IF Rejectable(RegOf(1), Added)
            THEN IsErr(got'.out.err) /\ RegAfter(1) = RegOf(1)
            ELSE /\ ~IsErr(got'.out.err)
                 /\ RegAfter(1).info = Append(RegOf(1).info, Added)
                 /\ RegAfter(1).valIdx =
                       Append(RegOf(1).valIdx,
                              Cardinality({k \in 1..Len(RegOf(1).info) :
                                             RegOf(1).info[k].colType = Added.colType}))]_vars
    /\ [](Is(1, "mci") => LookupExact(Deref(heap, objs[1].mci)))

\* C38 witness: Add has appended a second column, of another type than the
\* first, with the first slot of its type
C38_Witness ==
    /\ Is(1, "mci")
    /\ got.op = "Add" /\ ~IsErr(got.out.err)
    /\ Len(Deref(heap, objs[1].mci).info) = 2
    /\ Deref(heap, objs[1].mci).info[1].colType # Deref(heap, objs[1].mci).info[2].colType
    /\ Deref(heap, objs[1].mci).valIdx = <<0, 0>>


\* The caller's row before and after the step
TheRow == View(heap, objs[1])
RowAfter == View(heap', objs'[1])

\* The steps in which NewRow makes the caller's row and in which AddBool,
\* AddInt, AddFloat or AddString is called on it, with the type and name given
NewRowStep == pc = "rows" /\ got'.op = "NewRow" /\ Len(objs') = 1
RowAddStep == pc = "rows" /\ got'.op = "RowAdd"
AddedType == got'.arg[2][1]
AddedName == got'.arg[2][2]

\* The answer of a read that finds value v of type t
Found(v, t) == RowAnswer(v, t, NoErr, FALSE)

\* Column k (0-based) of the row is read the same by index and by name, an
\* index outside the columns and a name that is not a column's are errors
ReadsAgree(row) ==
    /\ \A k \in 0..(Len(row.info) - 1) :
          /\ ~ValByIdx(row, k).panic /\ ~IsErr(ValByIdx(row, k).err)
          /\ ValByName(row, row.info[k + 1].name) = ValByIdx(row, k)
    /\ \A k \in {0 - 1, Len(row.info), Len(row.info) + 1} :
          ~ValByIdx(row, k).panic /\ IsErr(ValByIdx(row, k).err)
    /\ \A n \in RegNames \cup {"c"} :
          (\A k \in 1..Len(row.info) : row.info[k].name # n) =>
              ~ValByName(row, n).panic /\ IsErr(ValByName(row, n).err)

\* C39: after any sequence of NewRow and AddBool/AddInt/AddFloat/AddString
\* calls on a row, ValByIdx(k) and ValByName(name of column k) both return
\* the type and value of the k-th successfully added column (columns created
\* by NewRow hold unavailable values), an out-of-range index or unknown name
\* returns an error, and an add that fails (duplicate or blank name) leaves
\* the row's columns and values unchanged.
C39_RowReadsWhatWasAdded ==
    /\ [][NewRowStep =>
            \A k \in 0..(Len(got'.arg) - 1) :
               ValByIdx(RowAfter, k)
                  = Found(NAVal(got'.arg[k + 1].colType), got'.arg[k + 1].colType)]_vars
    /\ [][RowAddStep =>
            IF AddedName = "" \/ \E k \in 1..Len(TheRow.info) : TheRow.info[k].name = AddedName
            THEN IsErr(got'.out.err) /\ RowAfter = TheRow
            ELSE /\ ~IsErr(got'.out.err)
                 /\ RowAfter.info = Append(TheRow.info, CI(AddedName, AddedType))
                 /\ ValByIdx(RowAfter, Len(TheRow.info))
                       = Found(GivenVal(AddedType), AddedType)
                 /\ \A k \in 0..(Len(TheRow.info) - 1) :
                       ValByIdx(RowAfter, k) = ValByIdx(TheRow, k)]_vars
    /\ [](Is(1, "row") => ReadsAgree(View(heap, objs[1])))
    /\ [](pc = "asked" =>
            got.out = IF got.op = "ValByIdx" THEN ValByIdx(View(heap, objs[1]), got.arg[2])
                      ELSE ValByName(View(heap, objs[1]), got.arg[2]))

\* C39 witness: the row NewRow made with one bool column was given an int
\* column, and reading the second by name gave the value added while the
\* first is still unavailable
C39_Witness ==
    /\ pc = "asked" /\ Is(1, "row")
    /\ got.op = "ValByName" /\ got.arg[2] = "b"
    /\ ~IsErr(got.out.err) /\ got.out.colType = ColTypeInt
    /\ got.out = Found(GivenVal(ColTypeInt), ColTypeInt)
    /\ Len(View(heap, objs[1]).info) = 2
    /\ View(heap, objs[1]).info[1].colType = ColTypeBool
    /\ ValByIdx(View(heap, objs[1]), 0) = Found(NAVal(ColTypeBool), ColTypeBool)


\* The step in which SetColNames succeeds on a store that has names
Renames ==
    /\ CallStep("SetColNames")
    /\ DOMAIN df.nameToCol # {}
    /\ ErrCount(df') = ErrCount(df)

\* The name is the one given for position k (1-based)
GivenAt(n, k) == k \in 1..Len(TheCall.names) /\ TheCall.names[k] = n

\* C40: a successful SetColNames on a store that already has names replaces
\* every column name and the whole name lookup: afterwards exactly the new
\* names resolve (each to its own position) and none of the replaced names
\* does, while column types, slots and stored values are unchanged.
C40_RenameReplacesLookup ==
    [][Renames =>
          /\ Len(df'.info) = Len(TheCall.names)
          /\ \A k \in 1..Len(df'.info) :
                /\ df'.info[k].name = TheCall.names[k]
                /\ df'.info[k].colType = df.info[k].colType
                /\ ColInfoByName(df', TheCall.names[k]) = Answer(df'.info[k], NoErr)
          /\ \A n \in (DOMAIN df.nameToCol) \cup QueryNames :
                (\A k \in 1..Len(TheCall.names) : ~GivenAt(n, k)) =>
                    /\ IsErr(ColInfoByName(df', n).err)
                    /\ n \notin DOMAIN df'.nameToCol
          /\ df'.valIdx = df.valIdx
          /\ Values(df') = Values(df)]_vars

\* C40 witness: the columns "a" and "b" of a store that holds a row have
\* been renamed "zz" and "a"
C40_Witness ==
    /\ pc = "store" /\ Len(calls) = 3
    /\ calls[3].op = "SetColNames" /\ calls[3].names = <<"zz", "a">>
    /\ ErrCount(df) = 0
    /\ RowCount(df) = 1
    /\ DOMAIN df.nameToCol = {"zz", "a"}

=============================================================================
